---- MODULE Spec2Model ----
(***************************************************************************)
(* A model of the plugin subsystem of the formatter: the configuration     *)
(* manager (src/black/plugins/__init__.py), the plugin registry            *)
(* (src/black/plugins/registry.py), the dispatch pipeline                  *)
(* (src/black/plugins/integration.py), the configuration profiles          *)
(* (src/black/profiles.py) and the example import sorter                   *)
(* (src/black/plugins/examples/import_sorter.py).                          *)
(*                                                                         *)
(* Python strings that the code takes apart (CLI plugin specs, option      *)
(* values) are sequences of one-character strings, so that split, strip,   *)
(* lower, isdigit and the int/float conversions are computed, not assumed. *)
(***************************************************************************)
EXTENDS Integers, Sequences, FiniteSets, TLC

VARIABLES
    \* ---- ConfigurationManager (one manager's life: load, update, configure)
    cm_pc,            \* "new" | "loaded" | "updated" | "configured" | "raised"
    plugins_config,   \* ConfigurationManager.plugins_config (a PluginsConfig)
    cm_loaded,        \* the path given to the first load_from_pyproject call
    cli_args,         \* the arguments given to update_from_cli
    \* ---- PluginRegistry (the process-wide singleton) and the interpreter
    plugin_classes,   \* PluginRegistry.plugin_classes, in insertion order
    enabled_plugins,  \* PluginRegistry.enabled_plugins, in insertion order
    sys_path,         \* sys.path
    sys_modules,      \* sys.modules, restricted to the discovered units
    reg_last,         \* what the last registry call was and how it ended
    has_instance,     \* PluginRegistry._instance is not None
    \* ---- profiles.py: the global ProfileRegistry and the profile directories
    registry_exists,  \* _registry is not None
    profiles,         \* ProfileRegistry.profiles: name -> ConfigurationProfile
    project_profiles_dir, \* ProfileRegistry.project_profiles_dir
    fs,               \* the three profile directories and their *.toml files
    prof_last,        \* the last call into profiles.py and how it ended
    prof_prev,        \* the call before it
    prof_steps,       \* how many calls were made
    \* ---- PluginLineGenerator (one visit at a time)
    pl_enabled,       \* what registry.get_all_enabled_plugins() returns
    pl_pc,            \* "idle" | "loop" | "returned" | "raised"
    pl_node,          \* the node being visited
    pl_plugins,       \* the list _apply_plugins iterates over
    pl_i,             \* the position of the loop in it
    pl_calls,         \* the plugins whose apply_plugin was called for the node
    pl_errors,        \* how many of these calls raised
    pl_out,           \* what visit returned
    pl_from,          \* "plugin" | "host": where that came from
    \* ---- ImportSorterPlugin (examples/import_sorter.py), one module at a time
    srt_config,       \* the plugin's attributes after __init__ and configure
    srt_module,       \* the children of the module node given to the plugin
    srt_pc,           \* "idle" | "sorted" | "resorted"
    srt_run,          \* how the last _process_module_imports call ended
    srt_first,        \* how the call before it ended
    \* ---- one --plugin option value taken through update_from_cli
    cv_value,         \* the text after "=" in the option pair
    cv_pc,            \* "idle" | "stored" | "raised"
    cv_stored,        \* what plugin_config.options holds for the key
    \* ---- a PluginLineGenerator whose one enabled plugin is the import sorter
    context_marker,   \* self.context.get("import_sorting_in_progress")
    visit_last        \* the last visit(node) call and how it ended

cm_vars  == <<cm_pc, plugins_config, cm_loaded, cli_args>>
reg_vars == <<plugin_classes, enabled_plugins, sys_path, sys_modules, reg_last,
              has_instance>>
prof_vars == <<registry_exists, profiles, project_profiles_dir, fs, prof_last,
               prof_prev, prof_steps>>
pl_vars == <<pl_enabled, pl_pc, pl_node, pl_plugins, pl_i, pl_calls, pl_errors,
             pl_out, pl_from>>
srt_vars == <<srt_config, srt_module, srt_pc, srt_run, srt_first>>
cv_vars == <<cv_value, cv_pc, cv_stored>>
ctx_vars == <<context_marker, visit_last>>

\* None
NoneV == "<None>"

(***************************************************************************)
(* Strings as sequences of characters                                      *)
(***************************************************************************)

\* The characters str.strip() removes.
Whitespace == {" "}

\* Characters for which str.isdigit() is true: the ASCII digits, and digits
\* such as SUPERSCRIPT TWO (written "sup2"), which int() and float() reject.
AsciiDigits == {"0", "1", "2", "3", "4", "5", "6", "7", "8", "9"}
OtherDigits == {"sup2"}

RECURSIVE LStrip(_)
LStrip(s) == IF s # <<>> /\ Head(s) \in Whitespace THEN LStrip(Tail(s)) ELSE s

RECURSIVE RStrip(_)
RStrip(s) ==
    IF s # <<>> /\ s[Len(s)] \in Whitespace
    THEN RStrip(SubSeq(s, 1, Len(s) - 1))
    ELSE s

\* str.strip()
Strip(s) == RStrip(LStrip(s))

\* The first index of character c in s, 0 when there is none.
IndexOf(s, c) ==
    IF \E i \in 1..Len(s) : s[i] = c
    THEN CHOOSE i \in 1..Len(s) : s[i] = c /\ \A j \in 1..(i - 1) : s[j] # c
    ELSE 0

\* "c in s"
Contains(s, c) == IndexOf(s, c) # 0

\* s.split(c, 1)
SplitOnce(s, c) ==
    LET i == IndexOf(s, c)
    IN  IF i = 0 THEN <<s>>
        ELSE <<SubSeq(s, 1, i - 1), SubSeq(s, i + 1, Len(s))>>

\* s.split(c)
RECURSIVE Split(_, _)
Split(s, c) ==
    LET i == IndexOf(s, c)
    IN  IF i = 0 THEN <<s>>
        ELSE <<SubSeq(s, 1, i - 1)>> \o Split(SubSeq(s, i + 1, Len(s)), c)

\* s.count(c)
RECURSIVE Count(_, _)
Count(s, c) ==
    IF s = <<>> THEN 0
    ELSE (IF Head(s) = c THEN 1 ELSE 0) + Count(Tail(s), c)

\* s.replace(c, "", 1)
RemoveFirst(s, c) ==
    LET i == IndexOf(s, c)
    IN  IF i = 0 THEN s ELSE SubSeq(s, 1, i - 1) \o SubSeq(s, i + 1, Len(s))

LowerChar(c) ==
    CASE c = "T" -> "t"
      [] c = "R" -> "r"
      [] c = "U" -> "u"
      [] c = "E" -> "e"
      [] c = "F" -> "f"
      [] c = "A" -> "a"
      [] c = "L" -> "l"
      [] c = "S" -> "s"
      [] OTHER -> c

\* s.lower()
Lower(s) == [i \in 1..Len(s) |-> LowerChar(s[i])]

\* s.isdigit(): non-empty and every character a digit
IsDigit(s) == s # <<>> /\ \A i \in 1..Len(s) : s[i] \in AsciiDigits \cup OtherDigits

(***************************************************************************)
(* Python values held in option maps: a tag and the text of the value.     *)
(***************************************************************************)

StrVal(s)  == [t |-> "str", s |-> s]
BoolVal(b) == [t |-> "bool", s |-> IF b THEN <<"1">> ELSE <<"0">>]

RECURSIVE DropLeadingZeros(_)
DropLeadingZeros(s) ==
    IF Len(s) > 1 /\ Head(s) = "0" THEN DropLeadingZeros(Tail(s)) ELSE s

RECURSIVE DropTrailingZeros(_)
DropTrailingZeros(s) ==
    IF Len(s) > 1 /\ s[Len(s)] = "0"
    THEN DropTrailingZeros(SubSeq(s, 1, Len(s) - 1))
    ELSE s

\* int(s), for s.isdigit(): ValueError on a digit that is not a decimal digit
IntOf(s) ==
    IF \A i \in 1..Len(s) : s[i] \in AsciiDigits
    THEN [t |-> "int", s |-> DropLeadingZeros(s)]
    ELSE [t |-> "ValueError", s |-> s]

\* float(s), for s digits around at most one ".": "5." is 5.0, ".5" is 0.5
FloatOf(s) ==
    LET parts == SplitOnce(s, ".")
        ip    == IF parts[1] = <<>> THEN <<"0">> ELSE DropLeadingZeros(parts[1])
        fp    == IF Len(parts) < 2 \/ parts[2] = <<>>
                 THEN <<"0">>
                 ELSE DropTrailingZeros(parts[2])
    IN  IF \A i \in 1..Len(s) : s[i] \in AsciiDigits \cup {"."}
        THEN [t |-> "float", s |-> ip \o <<".">> \o fp]
        ELSE [t |-> "ValueError", s |-> s]

IsError(v) == v.t = "ValueError"

\* The conversion of a CLI option value (update_from_cli, "Try to convert
\* value to appropriate type").
CoerceValue(value) ==
    IF Lower(value) = <<"t", "r", "u", "e">> THEN BoolVal(TRUE)
    ELSE IF Lower(value) = <<"f", "a", "l", "s", "e">> THEN BoolVal(FALSE)
    ELSE IF IsDigit(value) THEN IntOf(value)
    ELSE IF IsDigit(RemoveFirst(value, ".")) /\ Count(value, ".") <= 1
         THEN FloatOf(value)
    ELSE StrVal(value)

\* dict.update / item assignment: g's keys over f's
Overlay(f, g) ==
    [k \in DOMAIN f \cup DOMAIN g |-> IF k \in DOMAIN g THEN g[k] ELSE f[k]]

EmptyMap == [k \in {} |-> NoneV]

(***************************************************************************)
(* PluginConfig, PluginsConfig                                             *)
(***************************************************************************)

\* PluginConfig(name=...): state DEFAULT, no options, no version requirement
PluginConfig ==
    [state |-> "DEFAULT", options |-> EmptyMap, version_requirement |-> NoneV]

\* PluginsConfig()
PluginsConfig ==
    [plugin_configs    |-> EmptyMap,
     discovery_paths   |-> <<>>,
     disable_all       |-> FALSE,
     enable_by_default |-> TRUE]

(***************************************************************************)
(* The manifests on disk.  A manifest is what tomli.load returns for it,   *)
(* reduced to the [tool.black.plugins] table: the global keys present and  *)
(* the per-plugin entries in file order.                                   *)
(***************************************************************************)

\* Plugin names, option keys and option values used in manifests and on
\* the command line.
NameA == <<"a">>
NameB == <<"b">>
NameC == <<"c">>
KeyK  == <<"k">>
KeyJ  == <<"j">>
KeyZ  == <<"z">>

\* A per-plugin entry that is a bare boolean.
EntryBool(b) ==
    [kind |-> "bool", b |-> b, has |-> {}, enabled |-> FALSE,
     options_is_dict |-> FALSE, options |-> EmptyMap, version |-> NoneV]

\* A per-plugin entry that is a table holding the keys in `has`.
EntryTable(has, enabled, options, version) ==
    [kind |-> "table", b |-> FALSE, has |-> has, enabled |-> enabled,
     options_is_dict |-> TRUE, options |-> options, version |-> version]

\* A manifest that exists, parses and has the expected table shape.
Manifest(has, paths, disable_all, enable_by_default, entries) ==
    [exists |-> TRUE, readable |-> TRUE, parses |-> TRUE, shape_ok |-> TRUE,
     has |-> has, discovery_paths |-> paths, disable_all |-> disable_all,
     enable_by_default |-> enable_by_default, entries |-> entries]

EmptyManifest == Manifest({}, <<>>, FALSE, TRUE, <<>>)

ManifestPaths ==
    {"base.toml", "alt.toml", "off.toml", "broken.toml", "shape.toml",
     "locked.toml", "missing.toml"}

Manifests ==
    [p \in ManifestPaths |->
        CASE p = "base.toml" ->
                Manifest({"discovery_paths", "enable_by_default"},
                         <<"P1", "P2">>, FALSE, FALSE,
                         << [name |-> NameA,
                             entry |-> EntryTable({"enabled", "options", "version"}, TRUE,
                                           (KeyK :> StrVal(<<"m">>)) @@ (KeyJ :> StrVal(<<"n">>)),
                                           "1.0")],
                            [name |-> NameB, entry |-> EntryBool(FALSE)] >>)
          [] p = "alt.toml" ->
                Manifest({"disable_all"}, <<>>, FALSE, TRUE,
                         << [name |-> NameA,
                             entry |-> EntryTable({"options"}, FALSE,
                                           (KeyK :> StrVal(<<"q">>)), NoneV)] >>)
          [] p = "off.toml" ->
                Manifest({"discovery_paths", "disable_all", "enable_by_default"},
                         <<"P2", "P1">>, TRUE, TRUE,
                         << [name |-> NameB, entry |-> EntryBool(TRUE)],
                            [name |-> NameC,
                             entry |-> EntryTable({"enabled"}, FALSE, EmptyMap, NoneV)] >>)
          [] p = "broken.toml" -> [EmptyManifest EXCEPT !.parses = FALSE]
          [] p = "shape.toml"  -> [EmptyManifest EXCEPT !.shape_ok = FALSE]
          [] p = "locked.toml" -> [EmptyManifest EXCEPT !.readable = FALSE]
          [] OTHER             -> [EmptyManifest EXCEPT !.exists = FALSE] ]

\* The pyproject.toml found by walking up from the working directory.
WalkUp == "base.toml"

(***************************************************************************)
(* ConfigurationManager.load_from_pyproject                                *)
(***************************************************************************)

\* One manifest entry turned into a PluginConfig (the loop body, lines 87-104).
EntryConfig(e) ==
    IF e.kind = "table"
    THEN [state   |-> IF "enabled" \in e.has
                      THEN (IF e.enabled THEN "ENABLED" ELSE "DISABLED")
                      ELSE "DEFAULT",
          options |-> IF "options" \in e.has /\ e.options_is_dict
                      THEN e.options ELSE EmptyMap,
          version_requirement |-> IF "version" \in e.has THEN e.version ELSE NoneV]
    ELSE IF e.kind = "bool"
    THEN [PluginConfig EXCEPT !.state = IF e.b THEN "ENABLED" ELSE "DISABLED"]
    ELSE PluginConfig

\* plugin_configs after the entries are stored one by one (line 106).
RECURSIVE LoadEntries(_, _)
LoadEntries(pcs, entries) ==
    IF entries = <<>> THEN pcs
    ELSE LoadEntries(Overlay(pcs, Head(entries).name :> EntryConfig(Head(entries).entry)),
                     Tail(entries))

\* A load that takes discovery_paths from the manifest whether or not the
\* manifest states it.
LoadedDiscoveryPaths_unconditional(cfg, m) == m.discovery_paths

\* discovery_paths after lines 73-74.
LoadedDiscoveryPaths(cfg, m) ==
    IF "discovery_paths" \in m.has THEN m.discovery_paths ELSE cfg.discovery_paths

\* load_from_pyproject(path) on configuration cfg: the configuration after
\* the call, and whether the call raised.
load_from_pyproject(cfg, path) ==
    LET p == IF path = NoneV THEN WalkUp ELSE path
    IN  IF p = NoneV \/ ~Manifests[p].exists
        THEN [cfg |-> cfg, raised |-> FALSE]
        ELSE LET m == Manifests[p]
             IN  IF ~m.readable \/ ~m.parses
                 THEN [cfg |-> cfg, raised |-> FALSE]   \* except (TOMLDecodeError, OSError)
                 ELSE IF ~m.shape_ok
                 THEN [cfg |-> cfg, raised |-> TRUE]    \* AttributeError from .get / .items
                 ELSE [cfg |->
                         [plugin_configs    |-> LoadEntries(cfg.plugin_configs, m.entries),
                          discovery_paths   |-> LoadedDiscoveryPaths(cfg, m),
                          disable_all       |-> IF "disable_all" \in m.has
                                                THEN m.disable_all
                                                ELSE cfg.disable_all,
                          enable_by_default |-> IF "enable_by_default" \in m.has
                                                THEN m.enable_by_default
                                                ELSE cfg.enable_by_default],
                       raised |-> FALSE]

(***************************************************************************)
(* ConfigurationManager.update_from_cli                                    *)
(***************************************************************************)

\* The option pairs of one spec applied to an option map, in order
\* (lines 137-151); stops at a conversion that raises.
RECURSIVE ApplyPairs(_, _)
ApplyPairs(options, pairs) ==
    IF pairs = <<>> THEN [options |-> options, raised |-> FALSE]
    ELSE IF ~Contains(Head(pairs), "=") THEN ApplyPairs(options, Tail(pairs))
    ELSE LET kv    == SplitOnce(Head(pairs), "=")
             key   == Strip(kv[1])
             value == CoerceValue(Strip(kv[2]))
         IN  IF IsError(value)
             THEN [options |-> options, raised |-> TRUE]
             ELSE ApplyPairs(Overlay(options, key :> value), Tail(pairs))

\* A spec whose parsed options replace the plugin's option map.
ApplySpec_replacing_options(pcs, plugin_spec) ==
    LET parts       == SplitOnce(plugin_spec, ":")
        plugin_name == Strip(parts[1])
        pcs1        == IF plugin_name \in DOMAIN pcs THEN pcs
                       ELSE Overlay(pcs, plugin_name :> PluginConfig)
        pcs2        == [pcs1 EXCEPT ![plugin_name].state = "ENABLED"]
        merged      == IF Len(parts) > 1 /\ parts[2] # <<>>
                       THEN ApplyPairs(EmptyMap, Split(parts[2], ","))
                       ELSE [options |-> pcs2[plugin_name].options, raised |-> FALSE]
    IN  [pcs    |-> [pcs2 EXCEPT ![plugin_name].options = merged.options],
         raised |-> merged.raised]

\* One --plugin spec applied to plugin_configs (lines 123-151).
ApplySpec(pcs, plugin_spec) ==
    LET parts       == SplitOnce(plugin_spec, ":")
        plugin_name == Strip(parts[1])
        pcs1        == IF plugin_name \in DOMAIN pcs THEN pcs
                       ELSE Overlay(pcs, plugin_name :> PluginConfig)
        pcs2        == [pcs1 EXCEPT ![plugin_name].state = "ENABLED"]
        merged      == IF Len(parts) > 1 /\ parts[2] # <<>>
                       THEN ApplyPairs(pcs2[plugin_name].options, Split(parts[2], ","))
                       ELSE [options |-> pcs2[plugin_name].options, raised |-> FALSE]
    IN  [pcs    |-> [pcs2 EXCEPT ![plugin_name].options = merged.options],
         raised |-> merged.raised]

\* The loop over cli_args.plugin (line 122).
RECURSIVE ApplySpecs(_, _)
ApplySpecs(pcs, specs) ==
    IF specs = <<>> THEN [pcs |-> pcs, raised |-> FALSE]
    ELSE LET one == ApplySpec(pcs, Head(specs))
         IN  IF one.raised THEN one ELSE ApplySpecs(one.pcs, Tail(specs))

\* The loop over cli_args.disable_plugin (lines 155-158).
RECURSIVE ApplyDisables(_, _)
ApplyDisables(pcs, names) ==
    IF names = <<>> THEN pcs
    ELSE LET n    == Head(names)
             pcs1 == IF n \in DOMAIN pcs THEN pcs ELSE Overlay(pcs, n :> PluginConfig)
         IN  ApplyDisables([pcs1 EXCEPT ![n].state = "DISABLED"], Tail(names))

\* Step (a): the global flag (lines 114-115).
ApplyDisableAllFlag(cfg, args) ==
    IF args.disable_all_plugins THEN [cfg EXCEPT !.disable_all = TRUE] ELSE cfg

\* Step (b): the alternate manifest (lines 117-118).
ApplyPluginConfigPath(cfg, args) ==
    IF args.plugin_config # NoneV
    THEN load_from_pyproject(cfg, args.plugin_config)
    ELSE [cfg |-> cfg, raised |-> FALSE]

\* Step (c): the --plugin specs (lines 121-151).
ApplyPluginSpecs(cfg, args) ==
    LET r == ApplySpecs(cfg.plugin_configs, args.plugin)
    IN  [cfg |-> [cfg EXCEPT !.plugin_configs = r.pcs], raised |-> r.raised]

\* Step (d): the --disable-plugin names (lines 154-158).
ApplyDisablePlugins(cfg, args) ==
    [cfg EXCEPT !.plugin_configs = ApplyDisables(cfg.plugin_configs, args.disable_plugin)]

\* An update that handles the disabled plugins before the --plugin specs.
update_from_cli_disable_first(cfg, args) ==
    LET a == ApplyDisableAllFlag(cfg, args)
        b == ApplyPluginConfigPath(a, args)
        c == ApplyPluginSpecs(ApplyDisablePlugins(b.cfg, args), args)
    IN  IF b.raised THEN b ELSE c

\* update_from_cli(cli_args) on configuration cfg: the configuration after the
\* call (as far as it got when it raised), and whether it raised.
update_from_cli(cfg, args) ==
    LET a == ApplyDisableAllFlag(cfg, args)
        b == ApplyPluginConfigPath(a, args)
        c == ApplyPluginSpecs(b.cfg, args)
    IN  IF b.raised THEN b
        ELSE IF c.raised THEN c
        ELSE [cfg |-> ApplyDisablePlugins(c.cfg, args), raised |-> FALSE]

(***************************************************************************)
(* The plugin units on disk and the classes they define                    *)
(***************************************************************************)

\* The plugin classes: the name each declares (PLUGIN_NAME), the attributes an
\* instance has after __init__, and whether __init__ or configure raises.
ClassIds == {"A1", "A2", "A3", "A4", "B", "C", "D"}

ClassDefs ==
    [c \in ClassIds |->
        CASE c = "A1" -> [PLUGIN_NAME |-> NameA, raises |-> "never",
                          attrs |-> (KeyK :> StrVal(<<"d">>))]
          [] c = "A2" -> [PLUGIN_NAME |-> NameA, raises |-> "never",
                          attrs |-> (KeyK :> StrVal(<<"d">>)) @@ (KeyJ :> StrVal(<<"d">>))]
          [] c = "A3" -> [PLUGIN_NAME |-> NameA, raises |-> "never",
                          attrs |-> (KeyK :> StrVal(<<"d">>))]
          [] c = "A4" -> [PLUGIN_NAME |-> NameA, raises |-> "never",
                          attrs |-> (KeyK :> StrVal(<<"d">>))]
          [] c = "B"  -> [PLUGIN_NAME |-> NameB, raises |-> "never",
                          attrs |-> (KeyK :> StrVal(<<"d">>)) @@ (KeyJ :> StrVal(<<"d">>))]
          [] c = "C"  -> [PLUGIN_NAME |-> NameC, raises |-> "init",
                          attrs |-> EmptyMap]
          [] OTHER    -> [PLUGIN_NAME |-> <<"d">>, raises |-> "configure",
                          attrs |-> EmptyMap] ]

\* os.listdir(path) for the directories that exist.
Listing ==
    [d \in {"P1", "P2", "P3", "P4", "P5", "./plugins"} |->
        CASE d = "P1" -> <<"alpha.py", "_private.py", "notes.txt", "bad.py">>
          [] d = "P2" -> <<"alpha.py", "beta.py">>
          [] d = "P3" -> <<"boom.py">>
          [] d = "P4" -> <<"beta.py">>
          [] d = "P5" -> <<"one.py", "two.py">>
          [] OTHER    -> <<"gamma.py">> ]

\* os.path.exists(path)
PathExists(path) == path \in DOMAIN Listing

\* What executing a unit does: "ok" and the plugin classes that dir(module)
\* then lists, "ImportError", or another fault ("Error") such as a SyntaxError.
Units ==
    [u \in {<<"P1", "alpha.py">>, <<"P1", "_private.py">>, <<"P1", "bad.py">>,
            <<"P2", "alpha.py">>, <<"P2", "beta.py">>, <<"P3", "boom.py">>,
            <<"P4", "beta.py">>, <<"P5", "one.py">>, <<"P5", "two.py">>,
            <<"./plugins", "gamma.py">>} |->
        CASE u = <<"P1", "alpha.py">>       -> [outcome |-> "ok", classes |-> <<"A1">>]
          [] u = <<"P1", "_private.py">>    -> [outcome |-> "ok", classes |-> <<"B">>]
          [] u = <<"P1", "bad.py">>         -> [outcome |-> "ImportError", classes |-> <<>>]
          [] u = <<"P2", "alpha.py">>       -> [outcome |-> "ok", classes |-> <<"A2">>]
          [] u = <<"P2", "beta.py">>        -> [outcome |-> "ok", classes |-> <<"B", "D">>]
          [] u = <<"P3", "boom.py">>        -> [outcome |-> "Error", classes |-> <<>>]
          [] u = <<"P4", "beta.py">>        -> [outcome |-> "ok", classes |-> <<"B">>]
          [] u = <<"P5", "one.py">>         -> [outcome |-> "ok", classes |-> <<"A3">>]
          [] u = <<"P5", "two.py">>         -> [outcome |-> "ok", classes |-> <<"A4">>]
          [] OTHER                          -> [outcome |-> "ok", classes |-> <<"C">>] ]

\* The default discovery paths (lines 32-36); only the first exists.
DefaultPaths == <<"./plugins", "~/.black/plugins", "prefix/share/black/plugins">>

\* item.endswith(".py") and not item.startswith("_")  (line 52)
IsCandidate(item) ==
    item \in {"alpha.py", "bad.py", "beta.py", "boom.py", "gamma.py", "one.py", "two.py"}

\* item[:-3]
ModuleName(item) ==
    CASE item = "alpha.py" -> "alpha"
      [] item = "bad.py"   -> "bad"
      [] item = "beta.py"  -> "beta"
      [] item = "boom.py"  -> "boom"
      [] item = "gamma.py" -> "gamma"
      [] item = "one.py"   -> "one"
      [] item = "two.py"   -> "two"
      [] OTHER             -> "_private"

FileOf(module_name) ==
    CASE module_name = "alpha" -> "alpha.py"
      [] module_name = "bad"   -> "bad.py"
      [] module_name = "beta"  -> "beta.py"
      [] module_name = "boom"  -> "boom.py"
      [] module_name = "gamma" -> "gamma.py"
      [] module_name = "one"   -> "one.py"
      [] module_name = "two"   -> "two.py"
      [] OTHER                 -> "_private.py"

(***************************************************************************)
(* PluginRegistry.discover_plugins                                         *)
(***************************************************************************)

InSeq(x, seq) == \E i \in 1..Len(seq) : seq[i] = x

\* sys.path after the loop of lines 40-42.
RECURSIVE InsertPaths(_, _)
InsertPaths(path_list, paths) ==
    IF paths = <<>> THEN path_list
    ELSE InsertPaths(IF ~InSeq(Head(paths), path_list) /\ PathExists(Head(paths))
                     THEN <<Head(paths)>> \o path_list
                     ELSE path_list,
                     Tail(paths))

\* The (path, item) pairs the two loops of lines 46-52 visit, in order.
RECURSIVE CandidatesIn(_, _)
CandidatesIn(path, items) ==
    IF items = <<>> THEN <<>>
    ELSE (IF IsCandidate(Head(items)) THEN << <<path, Head(items)>> >> ELSE <<>>)
         \o CandidatesIn(path, Tail(items))

RECURSIVE Candidates(_)
Candidates(paths) ==
    IF paths = <<>> THEN <<>>
    ELSE (IF PathExists(Head(paths))
          THEN CandidatesIn(Head(paths), Listing[Head(paths)])
          ELSE <<>>)
         \o Candidates(Tail(paths))

\* The file the import system finds for a module name: the first directory of
\* sys.path that holds it (<<>> when none does).
FindUnit(path_list, module_name) ==
    LET hits == {i \in 1..Len(path_list) :
                    <<path_list[i], FileOf(module_name)>> \in DOMAIN Units}
    IN  IF hits = {} THEN <<>>
        ELSE <<path_list[CHOOSE i \in hits : \A j \in hits : i <= j], FileOf(module_name)>>

\* importlib.import_module(module_name): the module already in sys.modules, or
\* the unit found on sys.path, executed, and cached when that succeeds.
import_module(modules, path_list, module_name) ==
    IF module_name \in DOMAIN modules
    THEN [outcome |-> "ok", unit |-> modules[module_name], modules |-> modules]
    ELSE LET u == FindUnit(path_list, module_name)
         IN  IF u = <<>>
             THEN [outcome |-> "ImportError", unit |-> <<>>, modules |-> modules]
             ELSE IF Units[u].outcome = "ok"
             THEN [outcome |-> "ok", unit |-> u, modules |-> Overlay(modules, module_name :> u)]
             ELSE [outcome |-> Units[u].outcome, unit |-> u, modules |-> modules]

\* An assignment that keeps the value a name already has.
DictSet_keeping_first(d, name, value) ==
    IF \E i \in 1..Len(d) : d[i].name = name
    THEN d
    ELSE Append(d, [name |-> name, value |-> value])

\* self.plugin_classes[plugin_name] = attr on an insertion-ordered dict.
DictSet(d, name, value) ==
    IF \E i \in 1..Len(d) : d[i].name = name
    THEN [i \in 1..Len(d) |-> IF d[i].name = name THEN [name |-> name, value |-> value] ELSE d[i]]
    ELSE Append(d, [name |-> name, value |-> value])

\* The classes of one module indexed by declared name (lines 59-68).
RECURSIVE IndexClasses(_, _)
IndexClasses(classes, cls) ==
    IF cls = <<>> THEN classes
    ELSE IndexClasses(DictSet(classes, ClassDefs[Head(cls)].PLUGIN_NAME, Head(cls)), Tail(cls))

\* The loops of lines 46-70 over the candidates still to visit: the classes
\* indexed and the modules cached when they end, and whether a fault other
\* than ImportError ended them.
RECURSIVE LoadCandidates(_, _, _, _)
LoadCandidates(classes, modules, path_list, todo) ==
    IF todo = <<>> THEN [classes |-> classes, modules |-> modules, raised |-> FALSE]
    ELSE LET imp == import_module(modules, path_list, ModuleName(Head(todo)[2]))
         IN  IF imp.outcome = "ok"
             THEN LoadCandidates(IndexClasses(classes, Units[imp.unit].classes),
                                 imp.modules, path_list, Tail(todo))
             ELSE IF imp.outcome = "ImportError"
             THEN LoadCandidates(classes, modules, path_list, Tail(todo))
             ELSE [classes |-> classes, modules |-> modules, raised |-> TRUE]

\* The registry and interpreter state a registry call works on and returns.
Registry(classes, enabled, path_list, modules, raised) ==
    [plugin_classes |-> classes, enabled_plugins |-> enabled,
     sys_path |-> path_list, sys_modules |-> modules, raised |-> raised]

\* A discovery that restores sys.path only when the loops end normally.
discover_plugins_no_finally(reg, paths) ==
    LET ps            == IF paths = <<>> THEN DefaultPaths ELSE paths
        original_path == reg.sys_path
        loaded        == LoadCandidates(reg.plugin_classes, reg.sys_modules,
                                        InsertPaths(reg.sys_path, ps), Candidates(ps))
    IN  Registry(loaded.classes, reg.enabled_plugins,
                 IF loaded.raised THEN InsertPaths(reg.sys_path, ps) ELSE original_path,
                 loaded.modules, loaded.raised)

\* discover_plugins(paths)
discover_plugins(reg, paths) ==
    LET ps            == IF paths = <<>> THEN DefaultPaths ELSE paths
        original_path == reg.sys_path
        loaded        == LoadCandidates(reg.plugin_classes, reg.sys_modules,
                                        InsertPaths(reg.sys_path, ps), Candidates(ps))
    IN  Registry(loaded.classes, reg.enabled_plugins, original_path,
                 loaded.modules, loaded.raised)

(***************************************************************************)
(* PluginRegistry.configure_plugins, get_all_enabled_plugins               *)
(***************************************************************************)

\* A configure that sets every key of options, known attribute or not.
configure_setting_every_key(attrs, options) == Overlay(attrs, options)

\* AbstractPlugin.configure(options): the attributes after it.
configure(attrs, options) ==
    [k \in DOMAIN attrs |-> IF k \in DOMAIN options THEN options[k] ELSE attrs[k]]

\* A resolution that enables every plugin in state DEFAULT.
IsEnabled_default_on(plugin_config, config) == plugin_config.state # "DISABLED"

\* Lines 93-98.
IsEnabled(plugin_config, config) ==
    IF plugin_config.state = "ENABLED" THEN TRUE
    ELSE IF plugin_config.state = "DISABLED" THEN FALSE
    ELSE config.enable_by_default

\* config.plugin_configs.get(name, PluginConfig(name=name))
ConfigFor(config, name) ==
    IF name \in DOMAIN config.plugin_configs
    THEN config.plugin_configs[name]
    ELSE PluginConfig

\* A loop that a failing plugin ends: the classes after it are not visited.
RECURSIVE InitializePlugins_abort_on_failure(_, _, _)
InitializePlugins_abort_on_failure(enabled, config, todo) ==
    IF todo = <<>> THEN enabled
    ELSE LET name          == Head(todo).name
             cls           == Head(todo).value
             plugin_config == ConfigFor(config, name)
         IN  IF ~IsEnabled(plugin_config, config)
             THEN InitializePlugins_abort_on_failure(enabled, config, Tail(todo))
             ELSE IF ClassDefs[cls].raises # "never" THEN enabled
             ELSE InitializePlugins_abort_on_failure(
                      DictSet(enabled, name,
                              [cls |-> cls,
                               attrs |-> configure(ClassDefs[cls].attrs, plugin_config.options)]),
                      config, Tail(todo))

\* The loop of lines 89-107 over the classes still to visit.
RECURSIVE InitializePlugins(_, _, _)
InitializePlugins(enabled, config, todo) ==
    IF todo = <<>> THEN enabled
    ELSE LET name          == Head(todo).name
             cls           == Head(todo).value
             plugin_config == ConfigFor(config, name)
         IN  IF IsEnabled(plugin_config, config) /\ ClassDefs[cls].raises = "never"
             THEN InitializePlugins(
                      DictSet(enabled, name,
                              [cls |-> cls,
                               attrs |-> configure(ClassDefs[cls].attrs, plugin_config.options)]),
                      config, Tail(todo))
             ELSE InitializePlugins(enabled, config, Tail(todo))

\* A configure that returns on disable_all before it clears the enabled set.
configure_plugins_clear_late(reg, config) ==
    LET cleared == [reg EXCEPT !.enabled_plugins = <<>>]
        found   == IF cleared.plugin_classes = <<>>
                   THEN discover_plugins(cleared, config.discovery_paths)
                   ELSE cleared
    IN  IF config.disable_all THEN reg
        ELSE IF found.raised THEN found
        ELSE [found EXCEPT !.enabled_plugins =
                 InitializePlugins(<<>>, config, found.plugin_classes)]

\* A configure that adds to the enabled set it finds.
configure_plugins_not_clearing(reg, config) ==
    LET found == IF reg.plugin_classes = <<>>
                 THEN discover_plugins(reg, config.discovery_paths)
                 ELSE reg
    IN  IF config.disable_all THEN [reg EXCEPT !.enabled_plugins = <<>>]
        ELSE IF found.raised THEN found
        ELSE [found EXCEPT !.enabled_plugins =
                 InitializePlugins(reg.enabled_plugins, config, found.plugin_classes)]

\* configure_plugins(config)
configure_plugins(reg, config) ==
    LET cleared == [reg EXCEPT !.enabled_plugins = <<>>]
        found   == IF cleared.plugin_classes = <<>>
                   THEN discover_plugins(cleared, config.discovery_paths)
                   ELSE cleared
    IN  IF config.disable_all THEN cleared
        ELSE IF found.raised THEN found
        ELSE [found EXCEPT !.enabled_plugins =
                 InitializePlugins(<<>>, config, found.plugin_classes)]

\* A listing that gives the instances last-inserted first.
get_all_enabled_plugins_reversed(enabled) ==
    [i \in 1..Len(enabled) |-> enabled[Len(enabled) + 1 - i].value]

\* get_all_enabled_plugins()
get_all_enabled_plugins(enabled) == [i \in 1..Len(enabled) |-> enabled[i].value]

\* The names of the enabled plugins, in the order get_all_enabled_plugins
\* lists their instances.
EnabledNames(enabled) == [i \in 1..Len(enabled) |-> enabled[i].name]

(***************************************************************************)
(* The inputs: command lines, discovery path lists, configurations         *)
(***************************************************************************)

\* The most --plugin specs and --disable-plugin names on one command line.
MaxSpecs   == 2
MaxDisable == 1

SeqsUpTo(S, n) == UNION {[1..k -> S] : k \in 0..n}

\* --plugin specs: "a", "a:k=7,z=x", " a :k=true", "b:k=x,junk,k=1.5" and
\* "b:j=(superscript two)".
CliSpecs ==
    { <<"a">>,
      <<"a", ":", "k", "=", "7", ",", "z", "=", "x">>,
      <<" ", "a", " ", ":", "k", "=", "t", "r", "u", "e">>,
      <<"b", ":", "k", "=", "x", ",", "j", "u", "n", "k", ",", "k", "=", "1", ".", "5">>,
      <<"b", ":", "j", "=", "sup2">> }

\* --disable-plugin names: "a", "b" and " a".
CliDisableNames == {NameA, NameB, <<" ", "a">>}

\* cli_args, as argparse fills it (src/black/plugins/cli.py).
CliArgs ==
    [disable_all_plugins : BOOLEAN,
     plugin_config       : ManifestPaths \cup {NoneV},
     plugin              : SeqsUpTo(CliSpecs, MaxSpecs),
     disable_plugin      : SeqsUpTo(CliDisableNames, MaxDisable)]

NoCli ==
    [disable_all_plugins |-> FALSE, plugin_config |-> NoneV,
     plugin |-> <<>>, disable_plugin |-> <<>>]

\* The path lists discover_plugins is called with.
DiscoverPaths ==
    { <<>>, <<"P1">>, <<"P2">>, <<"P1", "P2">>, <<"P2", "P1">>, <<"P3", "P1">>,
      <<"P4", "P1">>, <<"P5">>, <<"P5", "P1">>, <<"P1", "P5">>,
      <<"nowhere">> }

\* The configurations configure_plugins is called with when it is called
\* directly: what each manifest loads, and two command lines over it.
RegistryConfigs ==
    {load_from_pyproject(PluginsConfig, p).cfg : p \in {"base.toml", "alt.toml", "off.toml", "missing.toml"}}
    \cup {update_from_cli(load_from_pyproject(PluginsConfig, p).cfg,
                          [NoCli EXCEPT !.plugin = << <<"a">> >>, !.disable_plugin = <<NameB>>]).cfg :
             p \in {"base.toml", "off.toml"}}

(***************************************************************************)
(* Initial states                                                          *)
(***************************************************************************)

\* sys.path when the process starts: without, and with, a plugin directory.
SysPaths == { <<"site-packages">>, <<"site-packages", "P2">> }

\* ConfigurationManager.__init__
CmInit ==
    /\ cm_pc = "new"
    /\ plugins_config = PluginsConfig
    /\ cm_loaded = NoneV
    /\ cli_args = NoCli

\* A fresh interpreter: no PluginRegistry was constructed (the dicts its
\* first construction makes are empty).
RegInit ==
    /\ has_instance = FALSE
    /\ plugin_classes = <<>>
    /\ enabled_plugins = <<>>
    /\ sys_path \in SysPaths
    /\ sys_modules = EmptyMap
    /\ reg_last = [op |-> "none", paths |-> <<>>, raised |-> FALSE, configured |-> FALSE,
                   had_enabled |-> FALSE, prev_enabled |-> <<>>,
                   prev_classes |-> <<>>]

\* The profile directories, and a directory that does not exist.
Dirs  == {"system", "user", "project"}
NoDir == [exists |-> FALSE, files |-> EmptyMap]

\* What a call into profiles.py was and how it ended.
ProfileCall(op, name, raised, constructed, found, config, settings, parent) ==
    [op |-> op, name |-> name, raised |-> raised, constructed |-> constructed,
     found |-> found, config |-> config, settings |-> settings, parent |-> parent]

NoCall == ProfileCall("none", NoneV, FALSE, FALSE, FALSE, EmptyMap, EmptyMap, NoneV)

\* profiles.py just imported: _registry = None; nothing on disk.
ProfIdle ==
    /\ registry_exists = FALSE
    /\ profiles = EmptyMap
    /\ project_profiles_dir = NoneV
    /\ fs = [d \in Dirs |-> NoDir]
    /\ prof_last = NoCall
    /\ prof_prev = NoCall
    /\ prof_steps = 0

\* The value _apply_plugins returns when no plugin handled the node.
ReturnNone == [t |-> "None", lines |-> <<>>]

\* A PluginLineGenerator that has not visited a node; no plugin enabled.
PipelineIdle ==
    /\ pl_enabled = <<>>
    /\ pl_pc = "idle"
    /\ pl_node = NoneV
    /\ pl_plugins = <<>>
    /\ pl_i = 0
    /\ pl_calls = <<>>
    /\ pl_errors = 0
    /\ pl_out = ReturnNone
    /\ pl_from = "none"

\* No _process_module_imports call was made.
NoRun ==
    [input |-> <<>>, raised |-> FALSE, result |-> "None", grouped |-> <<>>,
     sorted |-> <<>>, lines |-> <<>>, in_progress |-> FALSE]

\* No option stored.
NoValue == [t |-> "none", s |-> <<>>]

\* No option value was given.
CoercionIdle ==
    /\ cv_value = <<>>
    /\ cv_pc = "idle"
    /\ cv_stored = NoValue

\* No visit was made.
NoVisit == [node |-> NoneV, type |-> "none",
            unrenderable |-> {}, marker_before |-> FALSE,
            fault |-> "none", plugin_raised |-> FALSE, result |-> "None",
            raised |-> FALSE, from |-> "none"]

\* PluginLineGenerator.__init__ with no context given: self.context = {}
ContextIdle ==
    /\ context_marker = FALSE
    /\ visit_last = NoVisit

\* No ImportSorterPlugin was constructed.
SorterIdle ==
    /\ srt_config = NoneV
    /\ srt_module = <<>>
    /\ srt_pc = "idle"
    /\ srt_run = NoRun
    /\ srt_first = NoRun

\* A construction that always makes a new registry, with empty dicts.
PluginRegistry_new_always_fresh(exists, reg) ==
    [reg EXCEPT !.plugin_classes = <<>>, !.enabled_plugins = <<>>]

\* PluginRegistry(): the first construction makes the instance, with empty
\* dicts; every later one returns that instance as it is.
PluginRegistry_new(exists, reg) ==
    IF ~exists
    THEN [reg EXCEPT !.plugin_classes = <<>>, !.enabled_plugins = <<>>]
    ELSE reg

\* The registry a caller gets from PluginRegistry().
TheRegistry ==
    PluginRegistry_new(has_instance,
        Registry(plugin_classes, enabled_plugins, sys_path, sys_modules, FALSE))

\* The registry variables after a registry call that returned r; paths is
\* what discover_plugins was called with.
RegistryBecomes(r, op, paths) ==
    /\ has_instance' = TRUE
    /\ plugin_classes' = r.plugin_classes
    /\ enabled_plugins' = r.enabled_plugins
    /\ sys_path' = r.sys_path
    /\ sys_modules' = r.sys_modules
    /\ reg_last' = [op |-> op, paths |-> paths, raised |-> r.raised,
                    configured |-> reg_last.configured \/ op = "configure",
                    had_enabled |-> reg_last.had_enabled \/ r.enabled_plugins # <<>>,
                    prev_enabled |-> enabled_plugins,
                    prev_classes |-> plugin_classes]

(***************************************************************************)
(* Actions of one run of initialize_plugins (integration.py, lines 101-123) *)
(***************************************************************************)

\* config_manager.load_from_pyproject(config_path) / load_from_pyproject()
Load ==
    /\ cm_pc = "new"
    /\ \E path \in ManifestPaths \cup {NoneV} :
         /\ \E r \in {load_from_pyproject(plugins_config, path)} :
              /\ plugins_config' = r.cfg
              /\ cm_pc' = IF r.raised THEN "load_raised" ELSE "loaded"
         /\ cm_loaded' = path
    /\ UNCHANGED <<cli_args, reg_vars, prof_vars, pl_vars, srt_vars, cv_vars, ctx_vars>>

\* config_manager.update_from_cli(cli_args)
Update ==
    /\ cm_pc = "loaded"
    /\ \E args \in CliArgs :
         /\ \E r \in {update_from_cli(plugins_config, args)} :
              /\ plugins_config' = r.cfg
              /\ cm_pc' = IF r.raised THEN "update_raised" ELSE "updated"
         /\ cli_args' = args
    /\ UNCHANGED <<cm_loaded, reg_vars, prof_vars, pl_vars, srt_vars, cv_vars, ctx_vars>>

\* registry.configure_plugins(config_manager.plugins_config)
Configure ==
    /\ cm_pc \in {"loaded", "updated"}
    /\ RegistryBecomes(configure_plugins(TheRegistry, plugins_config), "configure", <<>>)
    /\ cm_pc' = "configured"
    /\ UNCHANGED <<plugins_config, cm_loaded, cli_args, prof_vars, pl_vars, srt_vars, cv_vars, ctx_vars>>

Next ==
    \/ Load
    \/ Update
    \/ Configure

vars == <<cm_vars, reg_vars, prof_vars, pl_vars, srt_vars, cv_vars, ctx_vars>>

\* A fresh process: a new ConfigurationManager, the registry not yet used.
Init == CmInit /\ RegInit /\ ProfIdle /\ PipelineIdle /\ SorterIdle /\ CoercionIdle /\ ContextIdle

Spec == Init /\ [][Next]_vars

(***************************************************************************)
(* Actions on the registry alone: any sequence of discover and configure   *)
(***************************************************************************)

\* registry.discover_plugins(paths)
Discover ==
    /\ \E paths \in DiscoverPaths :
         RegistryBecomes(discover_plugins(TheRegistry, paths), "discover", paths)
    /\ UNCHANGED <<cm_vars, prof_vars, pl_vars, srt_vars, cv_vars, ctx_vars>>

\* registry.configure_plugins(config)
ConfigureWith ==
    /\ \E config \in RegistryConfigs :
         /\ RegistryBecomes(configure_plugins(TheRegistry, config), "configure", <<>>)
         /\ plugins_config' = config
    /\ UNCHANGED <<cm_pc, cm_loaded, cli_args, prof_vars, pl_vars, srt_vars, cv_vars, ctx_vars>>

NextRegistry ==
    \/ Discover
    \/ ConfigureWith

SpecRegistry == Init /\ [][NextRegistry]_vars

(***************************************************************************)
(* Configuration profiles (profiles.py)                                    *)
(***************************************************************************)

\* A Python value of a settings dict: its type and its text.
PyValue(t, v) == [t |-> t, v |-> v]

\* ConfigurationProfile(name, description, version, settings, parent)
ConfigurationProfile(name, description, settings, parent) ==
    [name |-> name, description |-> description, version |-> "1.0",
     settings |-> settings, parent |-> parent]

\* BUILTIN_PROFILES, and the order of its values()
BuiltinOrder == <<"default", "pycharm", "vscode", "google", "compact">>

BUILTIN_PROFILES ==
    ("default" :> ConfigurationProfile("default", "Black's default settings",
        ("line_length" :> PyValue("int", "88"))
        @@ ("target_version" :> PyValue("list", "py38"))
        @@ ("skip_string_normalization" :> PyValue("bool", "False"))
        @@ ("skip_magic_trailing_comma" :> PyValue("bool", "False")),
        NoneV))
    @@ ("pycharm" :> ConfigurationProfile("pycharm", "Profile compatible with PyCharm defaults",
        ("line_length" :> PyValue("int", "120"))
        @@ ("skip_string_normalization" :> PyValue("bool", "True")),
        "default"))
    @@ ("vscode" :> ConfigurationProfile("vscode", "Profile compatible with VS Code defaults",
        ("line_length" :> PyValue("int", "100")),
        "default"))
    @@ ("google" :> ConfigurationProfile("google", "Profile following Google Python Style Guide",
        ("line_length" :> PyValue("int", "80"))
        @@ ("target_version" :> PyValue("list", "py38"))
        @@ ("skip_string_normalization" :> PyValue("bool", "True")),
        NoneV))
    @@ ("compact" :> ConfigurationProfile("compact", "Compact formatting with shorter line length",
        ("line_length" :> PyValue("int", "79"))
        @@ ("skip_magic_trailing_comma" :> PyValue("bool", "True")),
        "default"))

\* The depth at which the interpreter gives up a recursion (RecursionError).
RecursionLimit == 6

\* `if self.parent`: None and "" are both false
Truthy(parent) == parent \notin {NoneV, ""}

\* An overlay in which the parent's value wins on a shared key.
update_keeping_existing(config, settings) ==
    [k \in DOMAIN config \cup DOMAIN settings |->
        IF k \in DOMAIN config THEN config[k] ELSE settings[k]]

\* config.update(self.settings)
update(config, settings) ==
    [k \in DOMAIN config \cup DOMAIN settings |->
        IF k \in DOMAIN settings THEN settings[k] ELSE config[k]]

\* A resolution that gives up at the deepest call and returns the settings
\* of the profile it has reached.
RECURSIVE get_effective_configuration_bottoming_out(_, _, _)
get_effective_configuration_bottoming_out(registry, profile, depth) ==
    IF depth > RecursionLimit
    THEN [raised |-> FALSE, config |-> profile.settings]
    ELSE IF Truthy(profile.parent) /\ profile.parent \in DOMAIN registry
         THEN LET r == get_effective_configuration_bottoming_out(
                           registry, registry[profile.parent], depth + 1)
              IN  [raised |-> FALSE, config |-> update(r.config, profile.settings)]
         ELSE [raised |-> FALSE, config |-> profile.settings]

\* profile.get_effective_configuration(registry), at the given call depth
RECURSIVE get_effective_configuration(_, _, _)
get_effective_configuration(registry, profile, depth) ==
    IF depth > RecursionLimit
    THEN [raised |-> TRUE, config |-> EmptyMap]
    ELSE IF Truthy(profile.parent) /\ profile.parent \in DOMAIN registry
         THEN LET r == get_effective_configuration(registry, registry[profile.parent],
                                                   depth + 1)
              IN  IF r.raised THEN r
                  ELSE [raised |-> FALSE, config |-> update(r.config, profile.settings)]
         ELSE [raised |-> FALSE, config |-> profile.settings]

\* ---- TOML files -----------------------------------------------------------

\* A *.toml file: unparseable ("bad"), a document without a [profile] table
\* ("other", the empty file among them), or a [profile] table with the keys
\* it has. Values are TOML literals: their TOML type and their text.
Document(kind, keys, name, description, version, settings, parent) ==
    [kind |-> kind, keys |-> keys, name |-> name, description |-> description,
     version |-> version, settings |-> settings, parent |-> parent]

BadFile   == Document("bad", {}, "", "", "", EmptyMap, "")
EmptyFile == Document("other", {}, "", "", "", EmptyMap, "")

\* tomli_w's literal for a Python value
format_literal(value) ==
    CASE value.t = "bool" -> PyValue("boolean", IF value.v = "True" THEN "true" ELSE "false")
      [] value.t = "int"  -> PyValue("integer", value.v)
      [] value.t = "str"  -> PyValue("string", value.v)
      [] value.t = "list" -> PyValue("array", value.v)

\* tomli's Python value for a literal
parse_literal(literal) ==
    CASE literal.t = "boolean" -> PyValue("bool", IF literal.v = "true" THEN "True" ELSE "False")
      [] literal.t = "integer" -> PyValue("int", literal.v)
      [] literal.t = "string"  -> PyValue("str", literal.v)
      [] literal.t = "array"   -> PyValue("list", literal.v)

\* ConfigurationProfile.to_dict: the five keys, "parent" also when it is None
to_dict(profile) ==
    [name |-> profile.name, description |-> profile.description,
     version |-> profile.version, settings |-> profile.settings,
     parent |-> profile.parent]

\* tomli_w.dump({"profile": data}, f) on a file just opened with "wb": the
\* literals of [profile] are written in order (name, description, version,
\* parent), then [profile.settings]. None has no TOML literal: the dump
\* raises TypeError at "parent", and the file keeps what was written before,
\* or nothing.
dump(data) ==
    IF data.parent = NoneV
    THEN [raised |-> TRUE,
          written |-> { Document("profile", {"name", "description", "version"},
                                 data.name, data.description, data.version,
                                 EmptyMap, ""),
                        EmptyFile }]
    ELSE [raised |-> FALSE,
          written |-> { Document("profile",
                                 {"name", "description", "version", "settings", "parent"},
                                 data.name, data.description, data.version,
                                 [k \in DOMAIN data.settings |-> format_literal(data.settings[k])],
                                 data.parent) }]

\* ConfigurationProfile.from_dict(data["profile"])
from_dict(doc) ==
    [name        |-> IF "name" \in doc.keys THEN doc.name ELSE "",
     description |-> IF "description" \in doc.keys THEN doc.description ELSE "",
     version     |-> IF "version" \in doc.keys THEN doc.version ELSE "1.0",
     settings    |-> IF "settings" \in doc.keys
                     THEN [k \in DOMAIN doc.settings |-> parse_literal(doc.settings[k])]
                     ELSE EmptyMap,
     parent      |-> IF "parent" \in doc.keys THEN doc.parent ELSE NoneV]

\* ---- ProfileRegistry --------------------------------------------------------

\* registry.add_profile(profile)
add_profile(registry, profile) ==
    [n \in DOMAIN registry \cup {profile.name} |->
        IF n = profile.name THEN profile ELSE registry[n]]

\* The orders in which directory.glob("*.toml") may yield the files.
GlobOrders(files) ==
    {order \in [1..Cardinality(DOMAIN files) -> DOMAIN files] :
        \A i, j \in DOMAIN order : i # j => order[i] # order[j]}

\* ProfileRegistry._load_profiles_from_dir, the files taken in the given order
RECURSIVE load_profiles_from_dir(_, _, _)
load_profiles_from_dir(registry, files, order) ==
    IF order = <<>> THEN registry
    ELSE LET doc  == files[Head(order)]
             next == IF doc.kind = "profile"
                     THEN add_profile(registry, from_dict(doc))
                     ELSE registry
         IN  load_profiles_from_dir(next, files, Tail(order))

\* target_dir.mkdir(parents=True, exist_ok=True)
mkdir(filesystem, d) ==
    [filesystem EXCEPT ![d] = [exists |-> TRUE, files |-> @.files]]

\* for profile in BUILTIN_PROFILES.values(): _registry.add_profile(profile)
RECURSIVE add_builtins(_, _)
add_builtins(registry, todo) ==
    IF todo = <<>> THEN registry
    ELSE add_builtins(add_profile(registry, BUILTIN_PROFILES[Head(todo)]), Tail(todo))

\* ProfileRegistry.__init__ and _load_profiles: the system directory if it
\* exists, then the user directory (just made); no project directory yet.
ProfileRegistry(filesystem, system_order, user_order) ==
    LET loaded == IF filesystem["system"].exists
                  THEN load_profiles_from_dir(EmptyMap, filesystem["system"].files,
                                              system_order)
                  ELSE EmptyMap
    IN  [profiles |-> load_profiles_from_dir(loaded, filesystem["user"].files, user_order),
         fs       |-> mkdir(filesystem, "user")]

\* get_registry(): the registry, made on the first call
get_registry(exists, registry, filesystem, system_order, user_order) ==
    IF exists
    THEN [profiles |-> registry, fs |-> filesystem, constructed |-> FALSE]
    ELSE LET made == ProfileRegistry(filesystem, system_order, user_order)
         IN  [profiles |-> add_builtins(made.profiles, BuiltinOrder),
              fs |-> made.fs, constructed |-> TRUE]

\* ProfileRegistry.save_profile: the directory the location names
target_dir(location, project_dir) ==
    IF location = "system" THEN "system"
    ELSE IF location = "project" /\ project_dir # NoneV THEN "project"
    ELSE "user"

\* ---- the calls --------------------------------------------------------------

\* How many calls into profiles.py one run makes.
MaxProfileOps == 3

DefaultDoc(line_length) ==
    Document("profile", {"name", "description", "settings"}, "default", "ours", "",
             ("line_length" :> PyValue("integer", line_length)), "")

\* The profile directories a process may find on disk when it starts.
SystemDirs ==
    { NoDir,
      [exists |-> TRUE, files |-> ("default" :> DefaultDoc("90"))] }

UserDirs ==
    { NoDir,
      [exists |-> TRUE, files |-> ("default" :> DefaultDoc("100"))],
      [exists |-> TRUE, files |->
          ("team" :> Document("profile", {"name", "settings", "parent"}, "team", "", "",
                              ("line_length" :> PyValue("integer", "110")), "default"))
          @@ ("draft" :> Document("profile", {"name", "settings"}, "team", "", "",
                                  ("line_length" :> PyValue("integer", "111")), ""))
          @@ ("broken" :> BadFile)] }

ProjectDirs ==
    { NoDir,
      [exists |-> TRUE, files |-> ("default" :> DefaultDoc("120"))] }

\* What save_profile is called with.
SaveNames     == {"default", "mine"}
SaveSettings  == { ("line_length" :> PyValue("int", "100"))
                   @@ ("skip_string_normalization" :> PyValue("bool", "True")) }
SaveParents   == {NoneV, "default", "missing"}
SaveLocations == {"user", "project"}
LoadNames     == {"default", "mine", "team", "nobody"}

InitProfileStore ==
    /\ CmInit /\ RegInit /\ PipelineIdle /\ SorterIdle /\ CoercionIdle /\ ContextIdle
    /\ registry_exists = FALSE
    /\ profiles = EmptyMap
    /\ project_profiles_dir = NoneV
    /\ fs \in {[d \in Dirs |-> IF d = "system" THEN s ELSE IF d = "user" THEN u ELSE p] :
                 s \in SystemDirs, u \in UserDirs, p \in ProjectDirs}
    /\ prof_last = NoCall
    /\ prof_prev = NoCall
    /\ prof_steps = 0

\* The call is counted and remembered.
Called(call) ==
    /\ prof_last' = call
    /\ prof_prev' = prof_last
    /\ prof_steps' = prof_steps + 1

\* The orders in which the files of a directory may be read when this call
\* makes the registry; an existing registry reads none.
ConstructionOrders(d) ==
    IF registry_exists THEN {<<>>} ELSE GlobOrders(fs[d].files)

\* get_registry()
GetRegistry ==
    /\ prof_steps < MaxProfileOps
    /\ \E system_order \in ConstructionOrders("system"),
          user_order \in ConstructionOrders("user") :
         \E r \in {get_registry(registry_exists, profiles, fs, system_order, user_order)} :
            /\ registry_exists' = TRUE
            /\ profiles' = r.profiles
            /\ fs' = r.fs
            /\ Called(ProfileCall("get_registry", NoneV, FALSE, r.constructed, FALSE,
                                  EmptyMap, EmptyMap, NoneV))
    /\ UNCHANGED <<project_profiles_dir, cm_vars, reg_vars, pl_vars, srt_vars, cv_vars, ctx_vars>>

\* get_registry().set_project_profiles_dir(directory)
SetProjectProfilesDir ==
    /\ prof_steps < MaxProfileOps
    /\ \E system_order \in ConstructionOrders("system"),
          user_order \in ConstructionOrders("user"),
          project_order \in GlobOrders(fs["project"].files) :
         \E r \in {get_registry(registry_exists, profiles, fs, system_order, user_order)} :
            /\ registry_exists' = TRUE
            /\ project_profiles_dir' = "project"
            /\ profiles' = IF r.fs["project"].exists
                           THEN load_profiles_from_dir(r.profiles, r.fs["project"].files,
                                                       project_order)
                           ELSE r.profiles
            /\ fs' = r.fs
            /\ Called(ProfileCall("set_project_profiles_dir", NoneV, FALSE, r.constructed,
                                  FALSE, EmptyMap, EmptyMap, NoneV))
    /\ UNCHANGED <<cm_vars, reg_vars, pl_vars, srt_vars, cv_vars, ctx_vars>>

\* load_profile(name)
LoadProfile ==
    /\ prof_steps < MaxProfileOps
    /\ \E name \in LoadNames,
          system_order \in ConstructionOrders("system"),
          user_order \in ConstructionOrders("user") :
         \E r \in {get_registry(registry_exists, profiles, fs, system_order, user_order)} :
            /\ registry_exists' = TRUE
            /\ profiles' = r.profiles
            /\ fs' = r.fs
            /\ IF name \in DOMAIN r.profiles
               THEN \E e \in {get_effective_configuration(r.profiles, r.profiles[name], 0)} :
                       Called(ProfileCall("load_profile", name, e.raised, r.constructed,
                                          TRUE, e.config, EmptyMap, NoneV))
               ELSE Called(ProfileCall("load_profile", name, FALSE, r.constructed,
                                       FALSE, EmptyMap, EmptyMap, NoneV))
    /\ UNCHANGED <<project_profiles_dir, cm_vars, reg_vars, pl_vars, srt_vars, cv_vars, ctx_vars>>

\* save_profile(name, description, settings, parent, location)
SaveProfile ==
    /\ prof_steps < MaxProfileOps
    /\ \E name \in SaveNames, settings \in SaveSettings, parent \in SaveParents,
          location \in SaveLocations,
          system_order \in ConstructionOrders("system"),
          user_order \in ConstructionOrders("user") :
         \E r \in {get_registry(registry_exists, profiles, fs, system_order, user_order)} :
            \E profile \in {ConfigurationProfile(name, "saved", settings, parent)} :
               \E d \in {dump(to_dict(profile))} :
                  \E written \in d.written :
                     /\ registry_exists' = TRUE
                     /\ profiles' = add_profile(r.profiles, profile)
                     /\ fs' = [r.fs EXCEPT ![target_dir(location, project_profiles_dir)] =
                                  [exists |-> TRUE,
                                   files  |-> [f \in DOMAIN @.files \cup {name} |->
                                                 IF f = name THEN written ELSE @.files[f]]]]
                     /\ Called(ProfileCall("save_profile", name, d.raised, r.constructed,
                                           FALSE, EmptyMap, settings, parent))
    /\ UNCHANGED <<project_profiles_dir, cm_vars, reg_vars, pl_vars, srt_vars, cv_vars, ctx_vars>>

\* The process ends and another starts: _registry is None again, the files stay.
NewProcess ==
    /\ prof_steps < MaxProfileOps
    /\ registry_exists
    /\ registry_exists' = FALSE
    /\ profiles' = EmptyMap
    /\ project_profiles_dir' = NoneV
    /\ Called(NoCall)
    /\ UNCHANGED <<fs, cm_vars, reg_vars, pl_vars, srt_vars, cv_vars, ctx_vars>>

NextProfileStore ==
    \/ GetRegistry
    \/ SetProjectProfilesDir
    \/ LoadProfile
    \/ SaveProfile
    \/ NewProcess

SpecProfileStore == InitProfileStore /\ [][NextProfileStore]_vars

\* ---- get_effective_configuration over any registry ------------------------

ProfileNames == {"A", "B", "C"}
ParentNames  == {NoneV, "", "A", "B", "C", "missing"}
SettingsOf   == { ("line_length" :> PyValue("int", "88")),
                  ("line_length" :> PyValue("int", "120")),
                  ("skip_string_normalization" :> PyValue("bool", "True")) }

\* A profile whose name is the empty string, as from_dict makes of a file
\* that gives no name.
Nameless ==
    ConfigurationProfile("", "", ("skip_string_normalization" :> PyValue("bool", "False")),
                         NoneV)

\* Every registry over these names, with or without the nameless profile.
Registries ==
    UNION { [names -> [name : {"?"}, description : {""}, version : {"1.0"},
                       settings : SettingsOf, parent : ParentNames]]
            : names \in SUBSET ProfileNames }

Named(registry) ==
    [n \in DOMAIN registry |-> [registry[n] EXCEPT !.name = n]]

InitProfiles ==
    /\ CmInit /\ RegInit /\ PipelineIdle /\ SorterIdle /\ CoercionIdle /\ ContextIdle
    /\ registry_exists = TRUE
    /\ \E registry \in Registries, nameless \in BOOLEAN :
          profiles = IF nameless THEN add_profile(Named(registry), Nameless)
                     ELSE Named(registry)
    /\ project_profiles_dir = NoneV
    /\ fs = [d \in Dirs |-> NoDir]
    /\ prof_last = NoCall
    /\ prof_prev = NoCall
    /\ prof_steps = 0

\* registry.get_profile(name).get_effective_configuration(registry)
GetEffectiveConfiguration ==
    /\ prof_last.op = "none"
    /\ \E name \in DOMAIN profiles :
         \E e \in {get_effective_configuration(profiles, profiles[name], 0)} :
            Called(ProfileCall("get_effective_configuration", name, e.raised, FALSE,
                               TRUE, e.config, EmptyMap, NoneV))
    /\ UNCHANGED <<registry_exists, profiles, project_profiles_dir, fs,
                   cm_vars, reg_vars, pl_vars, srt_vars, cv_vars, ctx_vars>>

NextProfiles ==
    \/ GetEffectiveConfiguration

SpecProfiles == InitProfiles /\ [][NextProfiles]_vars

\* ---- get_effective_configuration and the dicts it touches -----------------

\* `return self.settings`: the settings dict of the profile itself.
settings_itself(profile) == [config |-> profile.settings, owner |-> profile.name]

\* self.settings.copy(): a new dict with the same items.  `owner` is the name
\* of the profile whose settings attribute the dict is, None for a dict no
\* profile holds.
settings_copy(profile) == [config |-> profile.settings, owner |-> NoneV]

\* config.update(settings) on the dict a call returned: the dict is changed in
\* place, and when it is the settings attribute of a profile, that profile's
\* settings change with it.
DictUpdate(r, settings) ==
    [raised |-> FALSE,
     config |-> update(r.config, settings),
     owner |-> r.owner,
     registry |-> IF r.owner = NoneV THEN r.registry
                  ELSE [r.registry EXCEPT ![r.owner].settings =
                                              update(r.config, settings)]]

\* What a call that raised nothing hands back after config.update(self.settings).
DictUpdateAfter(r, name) ==
    IF r.raised THEN r ELSE DictUpdate(r, r.registry[name].settings)

\* `return <dict>` with the registry as it is.
ReturnedDict(d, registry) ==
    [raised |-> FALSE, config |-> d.config, owner |-> d.owner, registry |-> registry]

\* registry.get_profile(name).get_effective_configuration(registry) at the
\* given call depth: whether it raised, the dict it returned with its owner,
\* and the registry's profiles after the call.
RECURSIVE get_effective_configuration_of(_, _, _)
get_effective_configuration_of(registry, name, depth) ==
    IF depth > RecursionLimit
    THEN [raised |-> TRUE, config |-> EmptyMap, owner |-> NoneV, registry |-> registry]
    ELSE IF Truthy(registry[name].parent) /\ registry[name].parent \in DOMAIN registry
         THEN DictUpdateAfter(
                  get_effective_configuration_of(registry, registry[name].parent,
                                                 depth + 1),
                  name)
         ELSE ReturnedDict(settings_copy(registry[name]), registry)

\* The calls of one process on a registry nothing else changes: a profile's
\* effective configuration is asked for, then asked for again.
EffectiveCall ==
    /\ prof_steps < MaxProfileOps
    /\ \E name \in DOMAIN profiles :
         /\ prof_last.op = "none" \/ name = prof_last.name
         /\ \E e \in {get_effective_configuration_of(profiles, name, 0)} :
              /\ profiles' = e.registry
              /\ Called(ProfileCall("get_effective_configuration", name, e.raised,
                                    FALSE, TRUE, e.config, EmptyMap, NoneV))
    /\ UNCHANGED <<registry_exists, project_profiles_dir, fs,
                   cm_vars, reg_vars, pl_vars, srt_vars, cv_vars, ctx_vars>>

NextEffective ==
    \/ EffectiveCall

SpecEffective == InitProfiles /\ [][NextEffective]_vars

(***************************************************************************)
(* The dispatch pipeline (integration.py, PluginLineGenerator)             *)
(***************************************************************************)

\* The most plugins enabled at once.
MaxPlugins == 3

Nodes == {"n1", "n2"}

\* The plugins, named by what their apply_plugin does.
PluginIds == {"defers", "empty", "one", "two", "raises", "picky"}

ReturnList(lines) == [t |-> "list", lines |-> lines]

\* line_gen(node): the lines of the base line generator
line_gen(node) == ReturnList(<<"host", node>>)

\* The reference plugins: ImportSorterPlugin and StringNormalizerPlugin, as
\* constructed (no configure call).
ReferencePlugins == {"import_sorter", "string_normalizer"}

\* Nodes with a type a reference plugin tests for, and one with another type.
TypedNodes == {"x = 1", "import os", "'s'"}

\* node.type
NodeType(node) ==
    CASE node = "import os" -> "import_stmt"
      [] node = "'s'"       -> "string"
      [] OTHER              -> "expr_stmt"

\* The node types for which a reference plugin does more than return
\* line_gen(node) at its first test.
HandledTypes(plugin) ==
    IF plugin = "import_sorter"
    THEN {"import_stmt", "import_from_stmt", "file_input"}
    ELSE {"string", "strings"}

\* The quote conversion of _normalize_string_lines with quotes = "double".
Requoted(line) == IF line = "'s'" THEN "\"s\"" ELSE line

\* StringNormalizerPlugin._normalize_string_lines with quotes = "double"
normalize_string_lines(lines) ==
    IF lines = <<>> THEN lines
    ELSE IF Len(lines) = 1 THEN <<Requoted(lines[1])>>
    ELSE lines

\* ImportSorterPlugin.apply_plugin for a node that is no file_input, with a
\* context whose import_sorting_in_progress entry is `marker`.
import_sorter_apply(node, marker) ==
    IF NodeType(node) \notin HandledTypes("import_sorter")
    THEN [raised |-> FALSE, result |-> line_gen(node)]
    ELSE IF marker
    THEN [raised |-> FALSE, result |-> ReturnNone]
    ELSE [raised |-> FALSE, result |-> line_gen(node)]

\* StringNormalizerPlugin.apply_plugin with the attributes __init__ sets
\* (normalize_docstrings, quotes = "double") on a node without children.
string_normalizer_apply(node) ==
    IF NodeType(node) \notin HandledTypes("string_normalizer")
    THEN [raised |-> FALSE, result |-> line_gen(node)]
    ELSE [raised |-> FALSE,
          result |-> ReturnList(normalize_string_lines(line_gen(node).lines))]

\* plugin.apply_plugin(line_gen, node, self.context)
apply_plugin(plugin, node) ==
    CASE plugin = "import_sorter" -> import_sorter_apply(node, context_marker)
      [] plugin = "string_normalizer" -> string_normalizer_apply(node)
      [] plugin = "defers" -> [raised |-> FALSE, result |-> ReturnNone]
      [] plugin = "empty"  -> [raised |-> FALSE, result |-> ReturnList(<<>>)]
      [] plugin = "one"    -> [raised |-> FALSE, result |-> ReturnList(<<"one">>)]
      [] plugin = "two"    -> [raised |-> FALSE, result |-> ReturnList(<<"two", node>>)]
      [] plugin = "raises" -> [raised |-> TRUE, result |-> ReturnNone]
      [] plugin = "picky"  -> [raised |-> FALSE,
                               result |-> IF node = "n1" THEN ReturnList(<<"picked">>)
                                          ELSE ReturnNone]

\* A handler that lets what the plugin raised leave the loop.
Caught_nothing(r) == FALSE

\* `except Exception as e`: what apply_plugin raised is logged, the loop goes on
Caught(r) == r.raised

\* A test under which the loop goes on whatever the plugin returned.
IsNotNone_ignored(result) == FALSE

\* `result is not None`
IsNotNone(result) == result.t # "None"

\* The lists get_all_enabled_plugins() may return: plugins of distinct names.
EnabledLists ==
    {l \in SeqsUpTo(PluginIds, MaxPlugins) :
        \A i, j \in DOMAIN l : i # j => l[i] # l[j]}

InitPipeline ==
    /\ CmInit /\ RegInit /\ ProfIdle /\ SorterIdle /\ CoercionIdle /\ ContextIdle
    /\ pl_enabled \in EnabledLists
    /\ pl_pc = "idle"
    /\ pl_node = NoneV
    /\ pl_plugins = <<>>
    /\ pl_i = 0
    /\ pl_calls = <<>>
    /\ pl_errors = 0
    /\ pl_out = ReturnNone
    /\ pl_from = "none"

\* visit(node) up to the loop of _apply_plugins, `enabled` being what
\* self.registry.get_all_enabled_plugins() returns; with no plugin enabled it
\* returns line_gen(node) at once.
VisitOf(enabled, nodes) ==
    /\ pl_pc \in {"idle", "returned", "raised"}
    /\ pl_enabled' = enabled
    /\ \E node \in nodes :
         /\ pl_node' = node
         /\ IF enabled = <<>>
            THEN /\ pl_pc' = "returned"
                 /\ pl_out' = line_gen(node)
                 /\ pl_from' = "host"
                 /\ pl_i' = 0
            ELSE /\ pl_pc' = "loop"
                 /\ pl_out' = ReturnNone
                 /\ pl_from' = "none"
                 /\ pl_i' = 1
    /\ pl_plugins' = enabled
    /\ pl_calls' = <<>>
    /\ pl_errors' = 0
    /\ UNCHANGED <<cm_vars, reg_vars, prof_vars, srt_vars, cv_vars, ctx_vars>>

VisitWith(enabled) == VisitOf(enabled, Nodes)

\* visit(node) of a generator whose registry has the plugins of pl_enabled
\* enabled.
Visit == VisitWith(pl_enabled)

\* One turn of the loop of _apply_plugins, and what visit does when the loop
\* ends with it.
ApplyPlugin ==
    /\ pl_pc = "loop"
    /\ \E r \in {apply_plugin(pl_plugins[pl_i], pl_node)} :
         /\ pl_calls' = Append(pl_calls, pl_plugins[pl_i])
         /\ pl_errors' = pl_errors + (IF Caught(r) THEN 1 ELSE 0)
         /\ IF r.raised /\ ~Caught(r)
            THEN /\ pl_pc' = "raised"
                 /\ UNCHANGED <<pl_out, pl_from, pl_i>>
            ELSE IF ~r.raised /\ IsNotNone(r.result)
            THEN /\ pl_pc' = "returned"
                 /\ pl_out' = r.result
                 /\ pl_from' = "plugin"
                 /\ pl_i' = pl_i
            ELSE IF pl_i = Len(pl_plugins)
            THEN /\ pl_pc' = "returned"
                 /\ pl_out' = line_gen(pl_node)
                 /\ pl_from' = "host"
                 /\ pl_i' = pl_i
            ELSE /\ pl_pc' = "loop"
                 /\ pl_i' = pl_i + 1
                 /\ UNCHANGED <<pl_out, pl_from>>
    /\ UNCHANGED <<pl_enabled, pl_node, pl_plugins, cm_vars, reg_vars, prof_vars, srt_vars, cv_vars, ctx_vars>>

NextPipeline ==
    \/ Visit
    \/ ApplyPlugin

SpecPipeline == InitPipeline /\ [][NextPipeline]_vars

(***************************************************************************)
(* The pipeline with a reference plugin first in registry order            *)
(***************************************************************************)

\* The lists get_all_enabled_plugins() may return with a reference plugin
\* first.
ReferenceFirstLists ==
    {l \in SeqsUpTo(PluginIds \cup ReferencePlugins, MaxPlugins) :
        /\ l # <<>>
        /\ l[1] \in ReferencePlugins
        /\ \A i, j \in DOMAIN l : i # j => l[i] # l[j]}

InitReferenceFirst ==
    /\ CmInit /\ RegInit /\ ProfIdle /\ SorterIdle /\ CoercionIdle /\ ContextIdle
    /\ pl_enabled \in ReferenceFirstLists
    /\ pl_pc = "idle"
    /\ pl_node = NoneV
    /\ pl_plugins = <<>>
    /\ pl_i = 0
    /\ pl_calls = <<>>
    /\ pl_errors = 0
    /\ pl_out = ReturnNone
    /\ pl_from = "none"

\* visit(node) for a node of one of the types above
VisitTyped == VisitOf(pl_enabled, TypedNodes)

NextReferenceFirst ==
    \/ VisitTyped
    \/ ApplyPlugin

SpecReferenceFirst == InitReferenceFirst /\ [][NextReferenceFirst]_vars

(***************************************************************************)
(* One process: initialize_plugins, then a PluginLineGenerator and its     *)
(* visits (integration.py, lines 21-80 and 101-123)                        *)
(***************************************************************************)

\* What apply_plugin of an instance of each class of the catalogue does.
ApplyOf ==
    [c \in ClassIds |->
        CASE c = "A1" -> "defers"
          [] c = "A2" -> "one"
          [] c = "A3" -> "two"
          [] c = "A4" -> "empty"
          [] c = "B"  -> "picky"
          [] OTHER    -> "raises" ]

\* The apply_plugin methods of a list of instances.
Dispatchers(instances) == [i \in 1..Len(instances) |-> ApplyOf[instances[i].cls]]

\* PluginLineGenerator(line_gen, mode, features): self.registry = PluginRegistry()
CreateLineGenerator ==
    /\ cm_pc = "configured"
    /\ reg_last.op \in {"configure", "new"}
    /\ ~reg_last.raised
    /\ RegistryBecomes(TheRegistry, "new", <<>>)
    /\ UNCHANGED <<cm_vars, prof_vars, pl_vars, srt_vars, cv_vars, ctx_vars>>

\* visit(node) of that generator: _apply_plugins reads the enabled plugins
\* from self.registry.
VisitNode ==
    /\ reg_last.op = "new"
    /\ VisitWith(Dispatchers(get_all_enabled_plugins(enabled_plugins)))

NextProcess ==
    \/ Load
    \/ Update
    \/ Configure
    \/ CreateLineGenerator
    \/ VisitNode
    \/ ApplyPlugin

SpecProcess == Init /\ [][NextProcess]_vars

(***************************************************************************)
(* ImportSorterPlugin (src/black/plugins/examples/import_sorter.py)        *)
(*                                                                         *)
(* The plugin reads its nodes through a string `type`, a `children` list,  *)
(* a `value` and a get_code() method; the nodes below have that shape,     *)
(* with the imported path held by a child of type "dotted_name".           *)
(***************************************************************************)

\* The code points of the characters import paths are made of, in order:
\* str < str compares code points.
CodePoints ==
    <<".", "R", "a", "b", "c", "d", "e", "f", "g", "h", "i", "j", "k", "l", "m",
      "n", "o", "p", "q", "r", "s", "t", "u", "v", "x", "y">>

Ord(c) == CHOOSE i \in DOMAIN CodePoints : CodePoints[i] = c

\* a < b for two str
RECURSIVE StrLess(_, _)
StrLess(a, b) ==
    IF a = <<>> THEN b # <<>>
    ELSE IF b = <<>> THEN FALSE
    ELSE IF a[1] = b[1] THEN StrLess(Tail(a), Tail(b))
    ELSE Ord(a[1]) < Ord(b[1])

\* s.startswith(p)
StartsWith(s, p) == Len(p) <= Len(s) /\ SubSeq(s, 1, Len(p)) = p

Path_os       == <<"o", "s">>
Path_os_path  == <<"o", "s", ".", "p", "a", "t", "h">>
Path_myapp    == <<"m", "y", "a", "p", "p">>
Path_myapp_core == <<"m", "y", "a", "p", "p", ".", "c", "o", "r", "e">>
Path_requests == <<"r", "e", "q", "u", "e", "s", "t", "s">>
Path_Requests == <<"R", "e", "q", "u", "e", "s", "t", "s">>
Path_six_moves == <<"s", "i", "x", ".", "m", "o", "v", "e", "s">>
Path_dot      == <<".">>

\* A child of a statement node: a keyword or a name (no code of interest), a
\* "dotted_name" whose get_code() is the path, or a "dot" leaf.
Keyword(word) == [type |-> "keyword", value |-> word, code |-> <<>>]
Name(word)    == [type |-> "name", value |-> word, code |-> <<>>]
DottedName(path) == [type |-> "dotted_name", value |-> "", code |-> path]
Dot           == [type |-> "dot", value |-> ".", code |-> Path_dot]

ImportStmt(id, path) ==
    [id |-> id, type |-> "import_stmt",
     children |-> <<Keyword("import"), DottedName(path)>>]

\* The statements a module is made of here:
\*   import os / import os.path / import myapp.core / import requests /
\*   import Requests / import six.moves / from . import utils /
\*   an import whose children hold no dotted_name / x = 1 /
\*   a def, which the host renders with an empty line before it
StmtNodes ==
    { ImportStmt("os", Path_os),
      ImportStmt("os.path", Path_os_path),
      ImportStmt("myapp.core", Path_myapp_core),
      ImportStmt("requests", Path_requests),
      ImportStmt("Requests", Path_Requests),
      ImportStmt("six.moves", Path_six_moves),
      [id |-> ".utils", type |-> "import_from_stmt",
       children |-> <<Keyword("from"), Dot, Keyword("import"), Name("utils")>>],
      [id |-> "nopath", type |-> "import_stmt",
       children |-> <<Keyword("import"), Name("x")>>],
      [id |-> "x = 1", type |-> "expr_stmt",
       children |-> <<Name("x"), Keyword("="), Name("1")>>],
      [id |-> "def f", type |-> "funcdef",
       children |-> <<Keyword("def"), Name("f")>>] }

NodeOf(id) == CHOOSE n \in StmtNodes : n.id = id

IsImport(child) == child.type \in {"import_stmt", "import_from_stmt"}

\* ImportSorterPlugin._extract_imports
extract_imports(children) == SelectSeq(children, IsImport)

\* The loops of _get_module_name over import_node.children.
RECURSIVE FirstPath(_, _)
FirstPath(children, is_from) ==
    IF children = <<>> THEN <<>>
    ELSE IF Head(children).type = "dotted_name" THEN Head(children).code
    ELSE IF is_from /\ Head(children).type = "dot" /\ Head(children).value = "."
         THEN Path_dot
    ELSE FirstPath(Tail(children), is_from)

\* ImportSorterPlugin._get_module_name
get_module_name(import_node) ==
    IF import_node.type = "import_stmt" THEN FirstPath(import_node.children, FALSE)
    ELSE IF import_node.type = "import_from_stmt"
         THEN FirstPath(import_node.children, TRUE)
    ELSE <<>>

stdlib_modules ==
    { <<"s", "y", "s">>,
      <<"o", "s">>,
      <<"r", "e">>,
      <<"m", "a", "t", "h">>,
      <<"t", "i", "m", "e">>,
      <<"d", "a", "t", "e", "t", "i", "m", "e">>,
      <<"c", "o", "l", "l", "e", "c", "t", "i", "o", "n", "s">>,
      <<"i", "t", "e", "r", "t", "o", "o", "l", "s">>,
      <<"f", "u", "n", "c", "t", "o", "o", "l", "s">>,
      <<"r", "a", "n", "d", "o", "m">>,
      <<"s", "o", "c", "k", "e", "t">>,
      <<"j", "s", "o", "n">>,
      <<"c", "s", "v">>,
      <<"a", "r", "g", "p", "a", "r", "s", "e">>,
      <<"l", "o", "g", "g", "i", "n", "g">>,
      <<"p", "a", "t", "h", "l", "i", "b">>,
      <<"t", "y", "p", "i", "n", "g">>,
      <<"a", "b", "c">>,
      <<"i", "o">>,
      <<"t", "e", "m", "p", "f", "i", "l", "e">>,
      <<"s", "h", "u", "t", "i", "l">>,
      <<"u", "n", "i", "t", "t", "e", "s", "t">> }

\* ("xml.", "http.", "html.", "email.")
DottedStdlibPrefixes ==
    { <<"x", "m", "l", ".">>, <<"h", "t", "t", "p", ".">>,
      <<"h", "t", "m", "l", ".">>, <<"e", "m", "a", "i", "l", ".">> }

\* ImportSorterPlugin._is_stdlib_module
is_stdlib_module(module_name) ==
    IF /\ Contains(module_name, ".")
       /\ ~\E p \in DottedStdlibPrefixes : StartsWith(module_name, p)
    THEN FALSE
    ELSE Split(module_name, ".")[1] \in stdlib_modules

\* any(module_name.startswith(prefix) for prefix in prefixes)
AnyPrefix(module_name, prefixes) ==
    \E prefix \in prefixes : StartsWith(module_name, prefix)

\* ImportSorterPlugin._determine_import_group
determine_import_group(self, import_node) ==
    LET module_name == get_module_name(import_node)
    IN  IF AnyPrefix(module_name, self.local_prefixes) THEN "local"
        ELSE IF /\ self.first_party_prefixes # {}
                /\ AnyPrefix(module_name, self.first_party_prefixes)
             THEN "first_party"
        ELSE IF /\ self.third_party_prefixes # {}
                /\ AnyPrefix(module_name, self.third_party_prefixes)
             THEN "third_party"
        ELSE IF self.stdlib_prefixes # {}
             THEN (IF AnyPrefix(module_name, self.stdlib_prefixes)
                   THEN "stdlib" ELSE "third_party")
        ELSE IF is_stdlib_module(module_name) THEN "stdlib"
        ELSE "third_party"

\* ImportSorterPlugin._get_sort_key: a str, or a (str, str) tuple.
get_sort_key(import_node, case_insensitive, by_package_first) ==
    LET name == get_module_name(import_node)
        module_name == IF case_insensitive THEN Lower(name) ELSE name
    IN  IF by_package_first /\ Contains(module_name, ".")
        THEN [t |-> "tuple", first |-> Split(module_name, ".")[1],
              name |-> module_name]
        ELSE [t |-> "str", first |-> <<>>, name |-> module_name]

KeyOf(self, item) ==
    get_sort_key(item.node, self.sort_case_insensitive,
                 self.sort_by_package_then_name)

\* a < b for two keys of one type: str order, or tuple order element by element.
KeyLess(a, b) ==
    IF a.t = "str" THEN StrLess(a.name, b.name)
    ELSE IF a.first # b.first THEN StrLess(a.first, b.first)
    ELSE StrLess(a.name, b.name)

\* list.sort moves x in front of e only when x < e, which keeps equal keys in
\* their input order; the variant also moves it in front of an equal key.
Before_or_equal(kx, ke) == ~KeyLess(ke, kx)

Before(kx, ke) == KeyLess(kx, ke)

RECURSIVE InsertSorted(_, _, _)
InsertSorted(self, sorted, x) ==
    IF sorted = <<>> THEN <<x>>
    ELSE IF Before(KeyOf(self, x), KeyOf(self, Head(sorted)))
         THEN <<x>> \o sorted
    ELSE <<Head(sorted)>> \o InsertSorted(self, Tail(sorted), x)

RECURSIVE SortedBy(_, _, _)
SortedBy(self, items, sorted) ==
    IF items = <<>> THEN sorted
    ELSE SortedBy(self, Tail(items), InsertSorted(self, sorted, Head(items)))

\* imports_in_group.sort(key=...): '<' between a str and a tuple raises
\* TypeError, and a list holding keys of both types always compares such a pair.
sort_group(self, items) ==
    IF \E i, j \in DOMAIN items : KeyOf(self, items[i]).t # KeyOf(self, items[j]).t
    THEN [raised |-> TRUE, items |-> items]
    ELSE [raised |-> FALSE, items |-> SortedBy(self, items, <<>>)]

\* grouped_imports after the first loop of _sort_imports: a dict, which keeps
\* its keys in insertion order.
RECURSIVE GroupImports(_, _, _)
GroupImports(self, imports, grouped) ==
    IF imports = <<>> THEN grouped
    ELSE LET imp == Head(imports)
             group == determine_import_group(self, imp)
             item == [node |-> imp, group |-> group]
             known == \E i \in DOMAIN grouped : grouped[i].group = group
         IN  GroupImports(self, Tail(imports),
                 IF known
                 THEN [i \in DOMAIN grouped |->
                          IF grouped[i].group = group
                          THEN [grouped[i] EXCEPT !.items = Append(@, item)]
                          ELSE grouped[i]]
                 ELSE Append(grouped, [group |-> group, items |-> <<item>>]))

ItemsOf(grouped, group) ==
    LET i == CHOOSE i \in DOMAIN grouped : grouped[i].group = group
    IN  grouped[i].items

\* for group in self.group_order: if group in grouped_imports: result.extend(...)
RECURSIVE ListedGroups(_, _)
ListedGroups(group_order, grouped) ==
    IF group_order = <<>> THEN <<>>
    ELSE (IF \E i \in DOMAIN grouped : grouped[i].group = Head(group_order)
          THEN ItemsOf(grouped, Head(group_order)) ELSE <<>>)
         \o ListedGroups(Tail(group_order), grouped)

\* for group, imports_in_group in grouped_imports.items():
\*     if group not in self.group_order: result.extend(imports_in_group)
RECURSIVE UnlistedGroups(_, _)
UnlistedGroups(group_order, grouped) ==
    IF grouped = <<>> THEN <<>>
    ELSE (IF InSeq(Head(grouped).group, group_order) THEN <<>>
          ELSE Head(grouped).items)
         \o UnlistedGroups(group_order, Tail(grouped))

\* The variant emits the groups as the dict holds them.
Assemble_as_seen(group_order, grouped) == UnlistedGroups(<<>>, grouped)

\* The two last loops of _sort_imports.
Assemble(group_order, grouped) ==
    ListedGroups(group_order, grouped) \o UnlistedGroups(group_order, grouped)

\* The second loop of _sort_imports: the groups sorted in dict order, up to the
\* first sort that raises.
RECURSIVE SortGroups(_, _)
SortGroups(self, grouped) ==
    IF grouped = <<>> THEN [raised |-> FALSE, grouped |-> <<>>]
    ELSE LET s == sort_group(self, Head(grouped).items)
         IN  IF s.raised THEN [raised |-> TRUE, grouped |-> <<>>]
             ELSE LET rest == SortGroups(self, Tail(grouped))
                  IN  [raised |-> rest.raised,
                       grouped |-> IF rest.raised THEN <<>>
                                   ELSE <<[group |-> Head(grouped).group,
                                           items |-> s.items]>> \o rest.grouped]

Flatten(grouped) == UnlistedGroups(<<>>, grouped)

\* ImportSorterPlugin._sort_imports
sort_imports(self, imports) ==
    LET grouped == GroupImports(self, imports, <<>>)
        s == SortGroups(self, grouped)
    IN  [raised |-> s.raised,
         grouped |-> Flatten(grouped),
         result |-> IF s.raised THEN <<>>
                    ELSE Assemble(self.group_order, s.grouped)]

\* A line of output: "" or the text of a statement.
BlankLine == [t |-> "blank", node |-> NoneV]

\* line_gen(node): the host's lines for a statement; those of a def start
\* with an empty line.
stmt_lines(node) ==
    (IF node.type = "funcdef" THEN <<BlankLine>> ELSE <<>>)
    \o <<[t |-> "code", node |-> node.id]>>

\* The loop of _process_module_imports over sorted_imports.
RECURSIVE ImportLines(_, _, _)
ImportLines(self, sorted_imports, current_group) ==
    IF sorted_imports = <<>> THEN <<>>
    ELSE LET item == Head(sorted_imports)
         IN  (IF /\ self.separate_groups_with_blank_line
                 /\ current_group # NoneV
                 /\ current_group # item.group
              THEN <<BlankLine>> ELSE <<>>)
             \o stmt_lines(item.node)
             \o ImportLines(self, Tail(sorted_imports), item.group)

RECURSIVE OtherLines(_)
OtherLines(children) ==
    IF children = <<>> THEN <<>>
    ELSE (IF IsImport(Head(children)) THEN <<>> ELSE stmt_lines(Head(children)))
         \o OtherLines(Tail(children))

SorterRun(input, raised, result, grouped, sorted, lines, in_progress) ==
    [input |-> input, raised |-> raised, result |-> result, grouped |-> grouped,
     sorted |-> sorted, lines |-> lines, in_progress |-> in_progress]

\* line_gen raises for none of the statements.
Renders(children, unrenderable) ==
    \A i \in DOMAIN children : children[i].id \notin unrenderable

\* ImportSorterPlugin._process_module_imports(node, line_gen, context) for a
\* file_input node of the given children, with a context whose
\* "import_sorting_in_progress" entry is `marker` and a line_gen that raises
\* for the statements of `unrenderable`.  `grouped` is the (import, group)
\* pairs in input order, `sorted` is sorted_imports (empty when the sort
\* raised), `in_progress` is context["import_sorting_in_progress"] when the
\* call ends.
process_module_imports_in(self, children, marker, unrenderable) ==
    LET imports == extract_imports(children)
        s == sort_imports(self, imports)
        import_lines == ImportLines(self, s.result, NoneV)
        other_lines == OtherLines(children)
    IN  IF imports = <<>>
        THEN SorterRun(children, FALSE, "None", <<>>, <<>>, <<>>, marker)
        ELSE IF s.raised
        THEN SorterRun(children, TRUE, "None", s.grouped, <<>>, <<>>, TRUE)
        ELSE IF ~Renders(children, unrenderable)
        THEN SorterRun(children, TRUE, "None", s.grouped, s.result, <<>>, TRUE)
        ELSE SorterRun(children, FALSE, "list", s.grouped, s.result,
                 IF /\ import_lines # <<>> /\ other_lines # <<>>
                    /\ other_lines[1].t = "code"
                 THEN import_lines \o <<BlankLine>> \o other_lines
                 ELSE import_lines \o other_lines,
                 FALSE)

\* The same with a context that has no marker and a line_gen that renders
\* every statement.
process_module_imports(self, children) ==
    process_module_imports_in(self, children, FALSE, {})

\* ImportSorterPlugin.__init__
DefaultSorter ==
    [group_order |-> <<"stdlib", "third_party", "first_party", "local">>,
     stdlib_prefixes |-> {},
     third_party_prefixes |-> {},
     first_party_prefixes |-> {},
     local_prefixes |-> {Path_dot},
     sort_case_insensitive |-> TRUE,
     sort_by_package_then_name |-> TRUE,
     separate_groups_with_blank_line |-> TRUE]

\* local=["."], first_party=["myapp"], default group order.
ExampleSorter == [DefaultSorter EXCEPT !.first_party_prefixes = {Path_myapp}]

\* The sorters a module is given to: after configure() with no option, with
\* first_party_prefixes, with a group_order that leaves groups out, with
\* stdlib_prefixes, and with third_party_prefixes and every flag off.  Every
\* group_order names a group once.
SorterConfigs ==
    { DefaultSorter,
      ExampleSorter,
      [DefaultSorter EXCEPT !.group_order = <<"local", "stdlib">>,
                            !.first_party_prefixes = {Path_myapp},
                            !.sort_by_package_then_name = FALSE],
      [DefaultSorter EXCEPT !.stdlib_prefixes = {Path_os}],
      [DefaultSorter EXCEPT !.third_party_prefixes = {Path_requests},
                            !.local_prefixes = {Path_dot, Path_myapp},
                            !.sort_case_insensitive = FALSE,
                            !.sort_by_package_then_name = FALSE,
                            !.separate_groups_with_blank_line = FALSE] }

MaxModuleLen == 3

\* import os, import myapp.core, from . import utils, import requests
ExampleModule ==
    <<NodeOf("os"), NodeOf("myapp.core"), NodeOf(".utils"), NodeOf("requests")>>

Modules == SeqsUpTo(StmtNodes, MaxModuleLen) \cup {ExampleModule}

\* A configured sorter and a module it has not been given yet.
InitImportSorter ==
    /\ CmInit /\ RegInit /\ ProfIdle /\ PipelineIdle /\ CoercionIdle /\ ContextIdle
    /\ srt_config \in SorterConfigs
    /\ srt_module \in Modules
    /\ srt_pc = "idle"
    /\ srt_run = NoRun
    /\ srt_first = NoRun

\* apply_plugin(line_gen, node, context) on the file_input node of the module.
ProcessModule ==
    /\ srt_pc = "idle"
    /\ srt_run' = process_module_imports(srt_config, srt_module)
    /\ srt_first' = srt_run
    /\ srt_pc' = "sorted"
    /\ UNCHANGED <<srt_config, srt_module, cm_vars, reg_vars, prof_vars, pl_vars,
                   cv_vars, ctx_vars>>

\* The module the returned lines spell: the imports in sorted order, then the
\* other statements.
SortedModule(run) ==
    [i \in DOMAIN run.sorted |-> run.sorted[i].node]
    \o SelectSeq(run.input, LAMBDA child : ~IsImport(child))

\* The same sorter applied to the module it returned.
ProcessAgain ==
    /\ srt_pc = "sorted"
    /\ srt_run.result = "list"
    /\ srt_module' = SortedModule(srt_run)
    /\ srt_run' = process_module_imports(srt_config, srt_module')
    /\ srt_first' = srt_run
    /\ srt_pc' = "resorted"
    /\ UNCHANGED <<srt_config, cm_vars, reg_vars, prof_vars, pl_vars, cv_vars, ctx_vars>>

NextImportSorter ==
    \/ ProcessModule
    \/ ProcessAgain

SpecImportSorter == InitImportSorter /\ [][NextImportSorter]_vars

(***************************************************************************)
(* The sorter behind the pipeline: the visits of one PluginLineGenerator   *)
(* whose one enabled plugin is the import sorter, all with self.context    *)
(* (integration.py, lines 39-80; import_sorter.py, lines 66-136)           *)
(***************************************************************************)

\* The file_input node of a module.
FileInput(children) == [id |-> "module", type |-> "file_input", children |-> children]

\* The statements line_gen(node) has to render.
StatementsOf(node) == IF node.type = "file_input" THEN node.children ELSE <<node>>

\* line_gen(node) called by the plugin: the host's lines, or its fault.
HostRendering(rendered, marker) ==
    [raised |-> ~rendered, result |-> "list",
     fault |-> IF rendered THEN "none" ELSE "line_gen", marker |-> marker]

\* apply_plugin on a file_input node, `run` being how its
\* _process_module_imports call ended.
ApplyToModule(run, rendered) ==
    IF run.raised
    THEN [raised |-> TRUE, result |-> "None",
          fault |-> IF run.sorted = <<>> THEN "sort" ELSE "line_gen",
          marker |-> run.in_progress]
    ELSE IF run.result = "list" /\ run.lines # <<>>
    THEN [raised |-> FALSE, result |-> "list", fault |-> "none",
          marker |-> run.in_progress]
    ELSE HostRendering(rendered, run.in_progress)

\* ImportSorterPlugin.apply_plugin(line_gen, node, context): whether it
\* raised and where the fault came from (the sort, or line_gen after the
\* sort), whether it returned None or a list, and the marker in the context
\* when it ends.
sorter_apply_plugin(self, node, marker, unrenderable) ==
    IF node.type \notin {"import_stmt", "import_from_stmt", "file_input"}
    THEN HostRendering(Renders(StatementsOf(node), unrenderable), marker)
    ELSE IF node.type = "file_input"
    THEN ApplyToModule(
             process_module_imports_in(self, node.children, marker, unrenderable),
             Renders(StatementsOf(node), unrenderable))
    ELSE IF marker
    THEN [raised |-> FALSE, result |-> "None", fault |-> "none", marker |-> marker]
    ELSE HostRendering(Renders(StatementsOf(node), unrenderable), marker)

\* What visit does with what the plugin did: a fault of apply_plugin is
\* caught, and a node no plugin handled is rendered by line_gen.
VisitEnds(node, marker, unrenderable, r) ==
    [node |-> node.id, type |-> node.type,
     unrenderable |-> unrenderable, marker_before |-> marker,
     fault |-> r.fault, plugin_raised |-> r.raised,
     result |-> IF r.raised THEN "None" ELSE r.result,
     raised |-> /\ r.raised \/ r.result = "None"
                /\ ~Renders(StatementsOf(node), unrenderable),
     from |-> IF r.raised \/ r.result = "None" THEN "host" ELSE "plugin",
     marker |-> r.marker]

\* PluginLineGenerator.visit(node) with the sorter the one enabled plugin.
visit(self, node, marker, unrenderable) ==
    VisitEnds(node, marker, unrenderable,
              sorter_apply_plugin(self, node, marker, unrenderable))

\* The statements line_gen may raise for during one visit: none, or one of
\* those the node holds.
Unrenderables(node) ==
    {{}} \cup {{StatementsOf(node)[i].id} : i \in DOMAIN StatementsOf(node)}

\* The most statements of a module whose nodes are visited one by one.
MaxVisitedLen == 2

VisitedModules == {children \in Modules : Len(children) <= MaxVisitedLen}

\* A generator with an empty context, its registry holding a configured
\* sorter, and the module whose nodes the host gives to it.
InitSorterVisits ==
    /\ CmInit /\ RegInit /\ ProfIdle /\ PipelineIdle /\ CoercionIdle /\ ContextIdle
    /\ srt_config \in SorterConfigs
    /\ srt_module \in VisitedModules
    /\ srt_pc = "idle"
    /\ srt_run = NoRun
    /\ srt_first = NoRun

Visited(v) ==
    /\ context_marker' = v.marker
    /\ visit_last' = [n \in DOMAIN NoVisit |-> v[n]]
    /\ UNCHANGED <<cm_vars, reg_vars, prof_vars, pl_vars, srt_vars, cv_vars>>

\* visit(node) for the file_input node of a module
VisitModule ==
    \E unrenderable \in Unrenderables(FileInput(srt_module)) :
        Visited(visit(srt_config, FileInput(srt_module), context_marker, unrenderable))

\* visit(node) for one statement of the module
VisitStatement ==
    \E i \in DOMAIN srt_module :
        \E unrenderable \in Unrenderables(srt_module[i]) :
            Visited(visit(srt_config, srt_module[i], context_marker, unrenderable))

NextSorterVisits ==
    \/ VisitModule
    \/ VisitStatement

SpecSorterVisits == InitSorterVisits /\ [][NextSorterVisits]_vars

(***************************************************************************)
(* ImportSorterPlugin.configure and get_default_options                    *)
(* (import_sorter.py, lines 32-64)                                         *)
(***************************************************************************)

\* Option values: a str, a list of str, a bool, an int.
OptStr(chars)  == [t |-> "str", s |-> chars, items |-> <<>>, b |-> FALSE]
OptList(items) == [t |-> "list", s |-> <<>>, items |-> items, b |-> FALSE]
OptBool(b)     == [t |-> "bool", s |-> <<>>, items |-> <<>>, b |-> b]
OptInt(digits) == [t |-> "int", s |-> digits, items |-> <<>>, b |-> FALSE]

\* The group names as Python strings.
GroupChars ==
    [g \in {"stdlib", "third_party", "first_party", "local"} |->
        CASE g = "stdlib"      -> <<"s", "t", "d", "l", "i", "b">>
          [] g = "third_party" -> <<"t", "h", "i", "r", "d", "_", "p", "a", "r", "t", "y">>
          [] g = "first_party" -> <<"f", "i", "r", "s", "t", "_", "p", "a", "r", "t", "y">>
          [] OTHER             -> <<"l", "o", "c", "a", "l">>]

\* The group a string names; any other string is a group of its own that
\* no import is put in.
GroupNamed(chars) ==
    IF \E g \in DOMAIN GroupChars : GroupChars[g] = chars
    THEN CHOOSE g \in DOMAIN GroupChars : GroupChars[g] = chars
    ELSE "other"

\* set(items)
SetOf(items) == {items[i] : i \in DOMAIN items}

\* The loop of configure over the four prefix options: a list becomes
\* set(value), a str becomes set(value.split(",")).
ConfiguredPrefixes(self, options, prefix_type) ==
    IF prefix_type \notin DOMAIN options THEN self[prefix_type]
    ELSE IF options[prefix_type].t = "list" THEN SetOf(options[prefix_type].items)
    ELSE SetOf(Split(options[prefix_type].s, ","))

\* group_order after configure: the list given, or value.split(",").
ConfiguredGroupOrder(self, options) ==
    IF "group_order" \notin DOMAIN options THEN self.group_order
    ELSE LET names == IF options["group_order"].t = "list"
                      THEN options["group_order"].items
                      ELSE Split(options["group_order"].s, ",")
         IN  [i \in DOMAIN names |-> GroupNamed(names[i])]

\* A flag after AbstractPlugin.configure.
ConfiguredFlag(self, options, flag) ==
    IF flag \in DOMAIN options THEN options[flag].b ELSE self[flag]

\* ImportSorterPlugin.configure(options)
sorter_configure(self, options) ==
    [group_order |-> ConfiguredGroupOrder(self, options),
     stdlib_prefixes |-> ConfiguredPrefixes(self, options, "stdlib_prefixes"),
     third_party_prefixes |-> ConfiguredPrefixes(self, options, "third_party_prefixes"),
     first_party_prefixes |-> ConfiguredPrefixes(self, options, "first_party_prefixes"),
     local_prefixes |-> ConfiguredPrefixes(self, options, "local_prefixes"),
     sort_case_insensitive |-> ConfiguredFlag(self, options, "sort_case_insensitive"),
     sort_by_package_then_name |->
         ConfiguredFlag(self, options, "sort_by_package_then_name"),
     separate_groups_with_blank_line |->
         ConfiguredFlag(self, options, "separate_groups_with_blank_line")]

\* ImportSorterPlugin.get_default_options()
get_default_options ==
    [k \in {"group_order", "stdlib_prefixes", "third_party_prefixes",
            "first_party_prefixes", "local_prefixes", "sort_case_insensitive",
            "sort_by_package_then_name", "separate_groups_with_blank_line",
            "separate_from_imports", "line_length"} |->
        CASE k = "group_order" ->
                 OptStr(<<"s", "t", "d", "l", "i", "b", ",", "t", "h", "i", "r", "d", "_", "p", "a", "r", "t", "y", ",", "f", "i", "r", "s", "t", "_", "p", "a", "r", "t", "y", ",", "l", "o", "c", "a", "l">>)
          [] k \in {"stdlib_prefixes", "third_party_prefixes", "first_party_prefixes"} ->
                 OptStr(<<>>)
          [] k = "local_prefixes" -> OptStr(<<".">>)
          [] k = "line_length" -> OptInt(<<"8", "8">>)
          [] OTHER -> OptBool(TRUE)]

\* Other option maps given to configure: none, first-party prefixes as a str
\* and as a list, a group order as a str, a stdlib prefix with a flag off,
\* and two prefixes in one str.
SorterOptionMaps ==
    { EmptyMap,
      ("first_party_prefixes" :> OptStr(Path_myapp)),
      ("first_party_prefixes" :> OptList(<<Path_myapp>>)),
      ("group_order" :> OptStr(<<"l", "o", "c", "a", "l", ",", "s", "t", "d", "l", "i", "b">>)),
      ("stdlib_prefixes" :> OptStr(Path_os)) @@ ("sort_case_insensitive" :> OptBool(FALSE)),
      ("third_party_prefixes" :> OptStr(Path_requests \o <<",">> \o Path_six_moves)) }

\* A freshly constructed sorter and the module it will be given.
InitSorterOptions ==
    /\ CmInit /\ RegInit /\ ProfIdle /\ PipelineIdle /\ CoercionIdle /\ ContextIdle
    /\ srt_config = DefaultSorter
    /\ srt_module \in VisitedModules
    /\ srt_pc = "idle"
    /\ srt_run = NoRun
    /\ srt_first = NoRun

\* plugin.configure(plugin.get_default_options())
ConfigureDefaults ==
    /\ srt_pc = "idle"
    /\ srt_config' = sorter_configure(srt_config, get_default_options)
    /\ srt_pc' = "defaults"
    /\ UNCHANGED <<srt_module, srt_run, srt_first, cm_vars, reg_vars, prof_vars,
                   pl_vars, cv_vars, ctx_vars>>

\* plugin.configure(options) with another map
ConfigureOptions ==
    /\ srt_pc = "idle"
    /\ \E options \in SorterOptionMaps :
          srt_config' = sorter_configure(srt_config, options)
    /\ srt_pc' = "configured"
    /\ UNCHANGED <<srt_module, srt_run, srt_first, cm_vars, reg_vars, prof_vars,
                   pl_vars, cv_vars, ctx_vars>>

\* The module given to the configured sorter (srt_run) and to a freshly
\* constructed one (srt_first).
ProcessConfigured ==
    /\ srt_pc \in {"defaults", "configured"}
    /\ srt_run' = process_module_imports(srt_config, srt_module)
    /\ srt_first' = process_module_imports(DefaultSorter, srt_module)
    /\ srt_pc' = IF srt_pc = "defaults" THEN "processed_defaults" ELSE "processed"
    /\ UNCHANGED <<srt_config, srt_module, cm_vars, reg_vars, prof_vars, pl_vars,
                   cv_vars, ctx_vars>>

NextSorterOptions ==
    \/ ConfigureDefaults
    \/ ConfigureOptions
    \/ ProcessConfigured

SpecSorterOptions == InitSorterOptions /\ [][NextSorterOptions]_vars

(***************************************************************************)
(* One option value through update_from_cli (lines 136-151)                *)
(***************************************************************************)

MaxValueLen == 3

\* The characters of the values: digits, the point, a sign, a letter and a
\* digit that is not a decimal digit (superscript two).
ValueChars == {"0", "7", ".", "-", "x", "sup2"}

Word_true  == <<"t", "r", "u", "e">>
Word_false == <<"f", "a", "l", "s", "e">>

\* The values after "=": every string of up to MaxValueLen of these
\* characters, and true / false in three casings.
OptionValues ==
    SeqsUpTo(ValueChars, MaxValueLen)
    \cup { Word_true, Word_false,
           <<"T", "R", "U", "E">>, <<"F", "a", "l", "s", "e">>,
           <<"T", "r", "u", "e">>, <<"F", "A", "L", "S", "E">> }

InitCoercion ==
    /\ CmInit /\ RegInit /\ ProfIdle /\ PipelineIdle /\ SorterIdle /\ ContextIdle
    /\ cv_value \in OptionValues
    /\ cv_pc = "idle"
    /\ cv_stored = NoValue

\* update_from_cli on a fresh manager with --plugin "a:k=<value>".
CoerceOption ==
    /\ cv_pc = "idle"
    /\ \E r \in {update_from_cli(PluginsConfig,
                      [NoCli EXCEPT !.plugin = << <<"a", ":", "k", "=">> \o cv_value >>])} :
         /\ cv_pc' = IF r.raised THEN "raised" ELSE "stored"
         /\ cv_stored' = IF r.raised THEN NoValue
                         ELSE r.cfg.plugin_configs[NameA].options[KeyK]
    /\ UNCHANGED <<cv_value, cm_vars, reg_vars, prof_vars, pl_vars, srt_vars, ctx_vars>>

NextCoercion ==
    \/ CoerceOption

SpecCoercion == InitCoercion /\ [][NextCoercion]_vars

(***************************************************************************)
(* What the inputs of a run say, read off the inputs themselves             *)
(***************************************************************************)

\* The plugin name a --plugin spec gives: the text before the first ":".
SpecName(plugin_spec) == Strip(SplitOnce(plugin_spec, ":")[1])

\* The names the command line enables and disables.
CliEnabled(args)  == {SpecName(args.plugin[i]) : i \in 1..Len(args.plugin)}
CliDisabled(args) == {args.disable_plugin[i] : i \in 1..Len(args.disable_plugin)}

\* The manifest file a path names, when it can be read as a manifest.
Readable(path) ==
    /\ path \in ManifestPaths
    /\ Manifests[path].exists /\ Manifests[path].readable
    /\ Manifests[path].parses /\ Manifests[path].shape_ok

\* The first manifest of the run and the alternate one of the command line.
FirstManifest == IF cm_loaded = NoneV THEN WalkUp ELSE cm_loaded
AltManifest   == cli_args.plugin_config

HasEntry(path, n) ==
    Readable(path) /\ \E i \in 1..Len(Manifests[path].entries) : Manifests[path].entries[i].name = n

EntryOf(path, n) ==
    LET es == Manifests[path].entries
    IN  es[CHOOSE i \in 1..Len(es) : es[i].name = n].entry

States(path, key) == Readable(path) /\ key \in Manifests[path].has

\* What a manifest entry says about its plugin: its state, options, version.
EntrySays(e) ==
    [state   |-> CASE e.kind = "bool" /\ e.b -> "ENABLED"
                   [] e.kind = "bool" /\ ~e.b -> "DISABLED"
                   [] e.kind = "table" /\ "enabled" \in e.has /\ e.enabled -> "ENABLED"
                   [] e.kind = "table" /\ "enabled" \in e.has /\ ~e.enabled -> "DISABLED"
                   [] OTHER -> "DEFAULT",
     options |-> IF e.kind = "table" /\ "options" \in e.has THEN e.options ELSE EmptyMap,
     version_requirement |-> IF e.kind = "table" /\ "version" \in e.has
                             THEN e.version ELSE NoneV]

\* The manifest that has the say on plugin n: the alternate one when it has an
\* entry for n, else the first one.
ManifestFor(n) ==
    IF HasEntry(AltManifest, n) THEN AltManifest
    ELSE IF HasEntry(FirstManifest, n) THEN FirstManifest
    ELSE NoneV

ManifestSays(n) ==
    IF ManifestFor(n) = NoneV THEN PluginConfig ELSE EntrySays(EntryOf(ManifestFor(n), n))

\* The option pairs the command line gives plugin n, in command-line order.
RECURSIVE PairsOf(_)
PairsOf(pairs) ==
    IF pairs = <<>> THEN <<>>
    ELSE (IF Contains(Head(pairs), "=")
          THEN << [key   |-> Strip(SplitOnce(Head(pairs), "=")[1]),
                   value |-> Strip(SplitOnce(Head(pairs), "=")[2])] >>
          ELSE <<>>) \o PairsOf(Tail(pairs))

RECURSIVE CliPairs(_, _)
CliPairs(specs, n) ==
    IF specs = <<>> THEN <<>>
    ELSE (IF SpecName(Head(specs)) = n /\ Len(SplitOnce(Head(specs), ":")) > 1
          THEN PairsOf(Split(SplitOnce(Head(specs), ":")[2], ","))
          ELSE <<>>) \o CliPairs(Tail(specs), n)

\* Whether the run got past update_from_cli.
Updated == cm_pc = "updated" \/ (cm_pc = "configured" /\ cli_args # NoCli)

(***************************************************************************)
(* C1.  After update_from_cli returns, every plugin name that is both in a *)
(* --plugin spec and in a --disable-plugin name has state DISABLED,        *)
(* whatever the manifests loaded before said about it.                     *)
(***************************************************************************)
C1_DisableWins ==
    Updated =>
        \A n \in CliEnabled(cli_args) \cap CliDisabled(cli_args) :
            /\ n \in DOMAIN plugins_config.plugin_configs
            /\ plugins_config.plugin_configs[n].state = "DISABLED"

\* A plugin the manifest enables, a spec enables and a name disables.
C1_Witness ==
    /\ cm_pc = "updated"
    /\ NameA \in CliEnabled(cli_args) \cap CliDisabled(cli_args)
    /\ ManifestSays(NameA).state = "ENABLED"
    /\ plugins_config.plugin_configs[NameA].state = "DISABLED"

(***************************************************************************)
(* C2.  When the last configure_plugins call had disable_all = true,       *)
(* get_all_enabled_plugins() is empty, whatever discover and configure     *)
(* calls came before and whatever discover calls came after.               *)
(***************************************************************************)
C2_DisableAllEmpties ==
    (reg_last.configured /\ plugins_config.disable_all) =>
        get_all_enabled_plugins(enabled_plugins) = <<>>

\* An earlier configure enabled plugins; the last one has disable_all and
\* an indexed plugin in state ENABLED.
C2_Witness ==
    /\ reg_last.configured /\ reg_last.had_enabled
    /\ plugins_config.disable_all
    /\ \E i \in 1..Len(plugin_classes) :
          ConfigFor(plugins_config, plugin_classes[i].name).state = "ENABLED"
    /\ enabled_plugins = <<>>

(***************************************************************************)
(* C3.  Whenever update_from_cli is called with the disable-all flag set,  *)
(* disable_all is true when it returns.                                    *)
(***************************************************************************)
C3_FlagForcesDisableAll ==
    (cm_pc = "updated" /\ cli_args.disable_all_plugins) => plugins_config.disable_all

(***************************************************************************)
(* C4.  End to end with disable_all false: a discovered plugin whose       *)
(* construction succeeds is enabled iff the highest-precedence source that *)
(* mentions it says so: --disable-plugin, then --plugin, then the manifest *)
(* entry (a boolean, or a table with an enabled key), then                 *)
(* enable_by_default.                                                      *)
(***************************************************************************)
\* enable_by_default as the manifests leave it.
EnableByDefaultSaid ==
    IF States(AltManifest, "enable_by_default") THEN Manifests[AltManifest].enable_by_default
    ELSE IF States(FirstManifest, "enable_by_default") THEN Manifests[FirstManifest].enable_by_default
    ELSE TRUE

ResolvedEnabled(n) ==
    IF n \in CliDisabled(cli_args) THEN FALSE
    ELSE IF n \in CliEnabled(cli_args) THEN TRUE
    ELSE IF ManifestSays(n).state # "DEFAULT" THEN ManifestSays(n).state = "ENABLED"
    ELSE EnableByDefaultSaid

EndToEnd ==
    cm_pc = "configured" /\ ~plugins_config.disable_all /\ ~reg_last.raised

\* As claimed: for every plugin whose construction succeeds.
C4_PrecedenceIfConstructed ==
    EndToEnd =>
        \A i \in 1..Len(plugin_classes) :
            ClassDefs[plugin_classes[i].value].raises # "init" =>
                (InSeq(plugin_classes[i].name, EnabledNames(enabled_plugins))
                    <=> ResolvedEnabled(plugin_classes[i].name))

\* As amended: for every plugin whose construction and configure(options)
\* call both succeed.
C4_PrecedenceIfInitialized ==
    EndToEnd =>
        \A i \in 1..Len(plugin_classes) :
            ClassDefs[plugin_classes[i].value].raises = "never" =>
                (InSeq(plugin_classes[i].name, EnabledNames(enabled_plugins))
                    <=> ResolvedEnabled(plugin_classes[i].name))

\* A run in which the alternate manifest leaves plugin a in state DEFAULT,
\* enable_by_default is false and the command line enables plugin b that the
\* manifest disables: a stays out, b is in.
C4_Witness ==
    /\ EndToEnd
    /\ InSeq(NameA, EnabledNames(plugin_classes)) /\ ~InSeq(NameA, EnabledNames(enabled_plugins))
    /\ ManifestSays(NameA).state = "DEFAULT" /\ ~EnableByDefaultSaid
    /\ NameA \notin CliEnabled(cli_args) \cup CliDisabled(cli_args)
    /\ InSeq(NameB, EnabledNames(enabled_plugins))
    /\ ManifestSays(NameB).state = "DISABLED" /\ NameB \in CliEnabled(cli_args)

(***************************************************************************)
(* C5.  For a plugin named in a --plugin spec, the option map after update *)
(* is the manifest's option map overlaid with the CLI pairs: every CLI key *)
(* has the (converted) value of the last pair that gives it, every other   *)
(* manifest key keeps its manifest value.                                  *)
(***************************************************************************)
LastValue(pairs, key) ==
    pairs[CHOOSE i \in 1..Len(pairs) :
             pairs[i].key = key /\ \A j \in (i + 1)..Len(pairs) : pairs[j].key # key].value

ExpectedOptions(n) ==
    LET pairs == CliPairs(cli_args.plugin, n)
        keys  == {pairs[i].key : i \in 1..Len(pairs)}
        base  == ManifestSays(n).options
    IN  [k \in DOMAIN base \cup keys |->
            IF k \in keys THEN CoerceValue(LastValue(pairs, k)) ELSE base[k]]

C5_OptionsOverlay ==
    Updated =>
        \A n \in CliEnabled(cli_args) :
            plugins_config.plugin_configs[n].options = ExpectedOptions(n)

\* Plugin a with manifest options k and j, two specs that both give k and one
\* that gives z: the later spec's k, the CLI's z, the manifest's j.
C5_Witness ==
    /\ cm_pc = "updated"
    /\ ManifestSays(NameA).options = (KeyK :> StrVal(<<"m">>)) @@ (KeyJ :> StrVal(<<"n">>))
    /\ Len(CliPairs(cli_args.plugin, NameA)) = 3
    /\ plugins_config.plugin_configs[NameA].options =
          (KeyK :> BoolVal(TRUE)) @@ (KeyJ :> StrVal(<<"n">>)) @@ (KeyZ :> StrVal(<<"x">>))

(***************************************************************************)
(* C6.  When update_from_cli names an alternate manifest, what the         *)
(* alternate manifest states replaces the prior configuration.             *)
(***************************************************************************)
\* discovery_paths as the manifests leave it when what the alternate manifest
\* does not state is kept.
DiscoveryPathsKept ==
    IF States(AltManifest, "discovery_paths") THEN Manifests[AltManifest].discovery_paths
    ELSE IF States(FirstManifest, "discovery_paths") THEN Manifests[FirstManifest].discovery_paths
    ELSE <<>>

AltLoaded == Updated /\ Readable(AltManifest)

\* As claimed: nothing the alternate manifest does not state survives from
\* the earlier manifest, no per-plugin entry and no discovery_paths value.
C6_AltReplacesAll ==
    AltLoaded =>
        /\ \A n \in DOMAIN plugins_config.plugin_configs :
              \/ HasEntry(AltManifest, n)
              \/ n \in CliEnabled(cli_args) \cup CliDisabled(cli_args)
        /\ plugins_config.discovery_paths =
              (IF States(AltManifest, "discovery_paths")
               THEN Manifests[AltManifest].discovery_paths ELSE <<>>)

\* As amended: an entry the alternate manifest states replaces the prior entry
\* of that name as a whole, a discovery_paths value it states replaces the
\* prior one, and what it does not state is kept from the earlier manifest.
C6_AltOverlays ==
    AltLoaded =>
        /\ \A n \in (DOMAIN plugins_config.plugin_configs)
                      \ (CliEnabled(cli_args) \cup CliDisabled(cli_args)) :
              /\ ManifestFor(n) # NoneV
              /\ plugins_config.plugin_configs[n] = ManifestSays(n)
        /\ \A n \in {NameA, NameB, NameC} \ DOMAIN plugins_config.plugin_configs :
              ManifestFor(n) = NoneV
        /\ plugins_config.discovery_paths = DiscoveryPathsKept

\* The alternate manifest's entry for a (options only) has replaced the first
\* manifest's (enabled, two options, a version); the first manifest's entry
\* for b and its discovery_paths are kept.
C6_Witness ==
    /\ cm_pc = "updated" /\ Readable(AltManifest)
    /\ cli_args.plugin = <<>> /\ cli_args.disable_plugin = <<>>
    /\ HasEntry(FirstManifest, NameA) /\ HasEntry(AltManifest, NameA)
    /\ EntrySays(EntryOf(FirstManifest, NameA)) # EntrySays(EntryOf(AltManifest, NameA))
    /\ plugins_config.plugin_configs[NameA] = EntrySays(EntryOf(AltManifest, NameA))
    /\ ~HasEntry(AltManifest, NameB)
    /\ plugins_config.plugin_configs[NameB].state = "DISABLED"
    /\ plugins_config.discovery_paths = <<"P1", "P2">>

(***************************************************************************)
(* Profiles: what the registry and the files say                           *)
(***************************************************************************)

\* The name a profile inherits from: its parent, when it names one and the
\* registry has a profile of that name.
ResolvedParent(registry, n) ==
    IF registry[n].parent \notin {NoneV, ""} /\ registry[n].parent \in DOMAIN registry
    THEN registry[n].parent
    ELSE NoneV

\* The k-th profile up the parent chain of n (n itself for k = 0).
RECURSIVE AncestorAt(_, _, _)
AncestorAt(registry, n, k) ==
    IF n = NoneV THEN NoneV
    ELSE IF k = 0 THEN n
    ELSE AncestorAt(registry, ResolvedParent(registry, n), k - 1)

\* The chain ends: it is no longer than the registry has profiles.
AcyclicChain(registry, n) ==
    AncestorAt(registry, n, Cardinality(DOMAIN registry)) = NoneV

\* The reference function: every key some profile of the chain sets, with the
\* value of the profile nearest to n that sets it.
RefEffective(registry, n) ==
    LET chain == {k \in 0..Cardinality(DOMAIN registry) : AncestorAt(registry, n, k) # NoneV}
        settingsAt(k) == registry[AncestorAt(registry, n, k)].settings
        nearest(key) == CHOOSE k \in chain :
                           /\ key \in DOMAIN settingsAt(k)
                           /\ \A j \in chain : j < k => key \notin DOMAIN settingsAt(j)
    IN  [key \in UNION {DOMAIN settingsAt(k) : k \in chain} |-> settingsAt(nearest(key))[key]]

\* C7: for every registry and every profile with an acyclic parent chain, the
\* effective configuration is the reference function: the profile's own
\* settings when it has no parent or the parent does not resolve, otherwise
\* the parent's effective configuration with the profile's settings laid over
\* it, the profile winning on a shared key.
C7_EffectiveIsReference ==
    (prof_last.op = "get_effective_configuration" /\ AcyclicChain(profiles, prof_last.name))
    => /\ ~prof_last.raised
       /\ prof_last.config = RefEffective(profiles, prof_last.name)

\* C7's example: A{line_length:88}, B->A{line_length:120},
\* C->B{skip_string_normalization:true}, and effective(C) asked for.
C7_Witness ==
    /\ prof_last.op = "get_effective_configuration"
    /\ prof_last.name = "C"
    /\ DOMAIN profiles = {"A", "B", "C"}
    /\ profiles["A"].parent = NoneV
    /\ profiles["A"].settings = ("line_length" :> PyValue("int", "88"))
    /\ profiles["B"].parent = "A"
    /\ profiles["B"].settings = ("line_length" :> PyValue("int", "120"))
    /\ profiles["C"].parent = "B"
    /\ profiles["C"].settings = ("skip_string_normalization" :> PyValue("bool", "True"))
    /\ prof_last.config = ("line_length" :> PyValue("int", "120"))
                          @@ ("skip_string_normalization" :> PyValue("bool", "True"))

\* The profiles the files of a directory hold.
FromDir(d) ==
    IF fs[d].exists
    THEN {from_dict(fs[d].files[f]) : f \in {g \in DOMAIN fs[d].files : fs[d].files[g].kind = "profile"}}
    ELSE {}

NamedIn(d, n) == {p \in FromDir(d) : p.name = n}

\* C8: in the registry get_registry() has just made, a name that a file of the
\* user directory gives is that file's profile, else a name that a file of
\* the system directory gives is that file's profile, else it is the
\* built-in; and after the project directory is set, a name a project file
\* gives is that file's profile.
C8_FilesShadowBuiltins ==
    /\ (prof_last.op = "get_registry" /\ prof_last.constructed)
       => \A n \in DOMAIN profiles :
             profiles[n] \in (IF NamedIn("user", n) # {} THEN NamedIn("user", n)
                              ELSE IF NamedIn("system", n) # {} THEN NamedIn("system", n)
                              ELSE {BUILTIN_PROFILES[n]})
    /\ prof_last.op = "set_project_profiles_dir"
       => \A n \in DOMAIN profiles :
             NamedIn("project", n) # {} => profiles[n] \in NamedIn("project", n)

\* C9: save_profile completes, and a load_profile of the same name right
\* after it returns the settings that were saved.
C9_RoundTrip ==
    /\ prof_last.op = "save_profile" => ~prof_last.raised
    /\ (prof_last.op = "load_profile" /\ prof_prev.op = "save_profile"
        /\ prof_prev.name = prof_last.name)
       => /\ prof_last.found
          /\ ~prof_last.raised
          /\ prof_last.config = prof_prev.settings

(***************************************************************************)
(* The dispatch pipeline                                                   *)
(***************************************************************************)

\* The plugin returns lines, and at least one, for the node.
NonEmptyResult(plugin, node) ==
    /\ ~apply_plugin(plugin, node).raised
    /\ apply_plugin(plugin, node).result.t = "list"
    /\ apply_plugin(plugin, node).result.lines # <<>>

\* C10: for the node being visited the plugins called are the enabled plugins
\* in registry order, as far as the loop went; a plugin that returned a
\* non-empty result is the last one called, and visit returned its result.
C10_FirstResultEndsLoop ==
    /\ pl_pc # "idle" => pl_plugins = pl_enabled
    /\ Len(pl_calls) <= Len(pl_plugins)
    /\ \A j \in 1..Len(pl_calls) : pl_calls[j] = pl_plugins[j]
    /\ (pl_pc = "returned" /\ pl_from = "host") => pl_calls = pl_plugins
    /\ \A j \in 1..Len(pl_calls) :
          NonEmptyResult(pl_calls[j], pl_node)
          => /\ j = Len(pl_calls)
             /\ pl_pc = "returned"
             /\ pl_from = "plugin"
             /\ pl_out = apply_plugin(pl_calls[j], pl_node).result

\* A visit where the second of three plugins returned lines: the first was
\* called and deferred, the third was not called.
C10_Witness ==
    /\ pl_pc = "returned"
    /\ pl_from = "plugin"
    /\ Len(pl_plugins) = 3
    /\ Len(pl_calls) = 2
    /\ pl_out.lines # <<>>

\* The plugin returns, and what it returns is None or an empty list of lines.
Defers(plugin, node) ==
    /\ ~apply_plugin(plugin, node).raised
    /\ apply_plugin(plugin, node).result.lines = <<>>

\* C11: a plugin that returned None or an empty list has deferred: when visit
\* has returned, a plugin after it in the list was offered the node too, and
\* when every enabled plugin deferred (or none is enabled) visit returned the
\* lines of the base line generator.
C11_EmptyOrAbsentDefers ==
    pl_pc = "returned"
    => /\ \A j \in 1..Len(pl_calls) :
             (Defers(pl_calls[j], pl_node) /\ j < Len(pl_plugins)) => Len(pl_calls) > j
       /\ (\A j \in 1..Len(pl_plugins) : Defers(pl_plugins[j], pl_node))
          => (pl_from = "host" /\ pl_out = line_gen(pl_node))

\* The plugin's apply_plugin raises for the node.
Raises(plugin, node) == apply_plugin(plugin, node).raised

\* C12: what a plugin raises never leaves the loop; it is counted as logged,
\* the plugins after it are still called for the same node, and when every
\* enabled plugin raised or returned None visit returns the lines of the base
\* line generator.
C12_FaultIsDeferral ==
    /\ pl_pc # "raised"
    /\ pl_errors = Cardinality({j \in 1..Len(pl_calls) : Raises(pl_calls[j], pl_node)})
    /\ pl_pc = "returned"
       => /\ \A j \in 1..Len(pl_calls) :
                (Raises(pl_calls[j], pl_node) /\ j < Len(pl_plugins)) => Len(pl_calls) > j
          /\ (\A j \in 1..Len(pl_plugins) :
                 \/ Raises(pl_plugins[j], pl_node)
                 \/ ~IsNotNone(apply_plugin(pl_plugins[j], pl_node).result))
             => (pl_calls = pl_plugins /\ pl_from = "host" /\ pl_out = line_gen(pl_node))

\* A visit where the first plugin raised and the second returned its lines.
C12_Witness ==
    /\ pl_pc = "returned"
    /\ pl_calls = <<"raises", "two">>
    /\ pl_from = "plugin"
    /\ pl_out = ReturnList(<<"two", pl_node>>)
    /\ pl_errors = 1

(***************************************************************************)
(* Discovery and configuration: failures, sys.path, order                  *)
(***************************************************************************)

\* The paths the last discover_plugins call searched.
SearchedPaths == IF reg_last.paths = <<>> THEN DefaultPaths ELSE reg_last.paths

\* The candidate units of these paths that load without a fault.
LoadableUnits(paths) ==
    {Candidates(paths)[i] :
        i \in {j \in 1..Len(Candidates(paths)) : Units[Candidates(paths)[j]].outcome = "ok"}}

\* The plugin names the classes of these units declare.
NamesIn(units) ==
    UNION {{ClassDefs[Units[u].classes[k]].PLUGIN_NAME : k \in 1..Len(Units[u].classes)} :
              u \in units}

IndexedNames == {plugin_classes[i].name : i \in 1..Len(plugin_classes)}

\* C13: discover_plugins returns normally whatever a candidate unit does when
\* it is loaded, and every plugin name that a loadable candidate unit of the
\* searched paths declares is indexed.
C13_DiscoverySurvivesFailures ==
    reg_last.op = "discover"
    => /\ ~reg_last.raised
       /\ NamesIn(LoadableUnits(SearchedPaths)) \subseteq IndexedNames

\* The indexed plugin at position i is resolved as enabled by the last
\* configuration, and whether making and configuring it raises.
EnabledByConfig(i) ==
    IsEnabled(ConfigFor(plugins_config, plugin_classes[i].name), plugins_config)

Fails(i) == ClassDefs[plugin_classes[i].value].raises # "never"

\* C14: when configure_plugins met a plugin that is resolved as enabled and
\* whose construction or configure(options) raises, it returned normally and
\* the enabled set holds exactly the other plugins resolved as enabled.
C14_FailingPluginAloneOmitted ==
    (/\ reg_last.op = "configure"
     /\ ~plugins_config.disable_all
     /\ \E i \in 1..Len(plugin_classes) : EnabledByConfig(i) /\ Fails(i))
    => /\ ~reg_last.raised
       /\ \A i \in 1..Len(plugin_classes) :
             InSeq(plugin_classes[i].name, EnabledNames(enabled_plugins))
             <=> (EnabledByConfig(i) /\ ~Fails(i))

\* A configure over the classes c, a, b, d in that order, all resolved as
\* enabled: c fails when constructed, d when configured; a and b are enabled.
C14_Witness ==
    /\ reg_last.op = "configure"
    /\ ~reg_last.raised
    /\ EnabledNames(plugin_classes) = <<NameC, NameA, NameB, <<"d">> >>
    /\ \A i \in 1..Len(plugin_classes) : EnabledByConfig(i)
    /\ EnabledNames(enabled_plugins) = <<NameA, NameB>>

\* C15: no step changes sys.path: when discover_plugins returns or raises,
\* sys.path has the contents and the order it had before the call.
C15_SysPathRestored == [][sys_path' = sys_path]_vars

\* A discover_plugins call that raised after a path was put on sys.path
\* (P1, not on it before) while another was on it already.
C15_Witness ==
    /\ reg_last.op = "discover"
    /\ reg_last.raised
    /\ reg_last.paths = <<"P3", "P1">>
    /\ sys_path = <<"site-packages", "P2">>

\* The names of the instances get_all_enabled_plugins() lists, in its order.
ListedNames ==
    [i \in 1..Len(get_all_enabled_plugins(enabled_plugins)) |->
        ClassDefs[get_all_enabled_plugins(enabled_plugins)[i].cls].PLUGIN_NAME]

\* Where discovery indexed a name: its position in plugin_classes.
IndexedAt(name) == CHOOSE i \in 1..Len(plugin_classes) : plugin_classes[i].name = name

\* C16: the instances get_all_enabled_plugins() lists are plugins of indexed
\* names, each once, in the order in which discovery indexed their names.
C16_EnabledInDiscoveryOrder ==
    /\ \A i \in 1..Len(ListedNames) : InSeq(ListedNames[i], EnabledNames(plugin_classes))
    /\ \A i, j \in 1..Len(ListedNames) :
          i < j => IndexedAt(ListedNames[i]) < IndexedAt(ListedNames[j])

\* Plugin b was indexed before plugin a and both are enabled: b is listed
\* first, against the alphabet.
C16_Witness ==
    /\ reg_last.op = "configure"
    /\ ListedNames = <<NameB, NameA>>

(***************************************************************************)
(* The import sorter: classification, assembly, order within a group       *)
(***************************************************************************)

\* The module's imports were handed to the sorter (grouping is done even
\* when the sort that follows raises).
SorterRan == srt_pc # "idle" /\ srt_run.grouped # <<>>

\* The group the priority order gives: local prefix, first-party prefix,
\* third-party prefix, then a stdlib prefix or, when none is configured, the
\* top-level component of the path being a built-in name; else third_party.
PriorityGroup(self, import_node) ==
    LET path == get_module_name(import_node)
    IN  IF AnyPrefix(path, self.local_prefixes) THEN "local"
        ELSE IF AnyPrefix(path, self.first_party_prefixes) THEN "first_party"
        ELSE IF AnyPrefix(path, self.third_party_prefixes) THEN "third_party"
        ELSE IF \/ AnyPrefix(path, self.stdlib_prefixes)
                \/ /\ self.stdlib_prefixes = {}
                   /\ Split(path, ".")[1] \in stdlib_modules
             THEN "stdlib"
        ELSE "third_party"

\* C17: every import is put in the group of the first matching test: local
\* prefix, first-party prefix, third-party prefix, stdlib prefix or (none
\* configured) top-level component in the built-in name set, also for
\* multi-component paths such as os.path; otherwise third_party.
C17_GroupByFirstMatchingTest ==
    SorterRan =>
        \A i \in DOMAIN srt_run.grouped :
            srt_run.grouped[i].group
                = PriorityGroup(srt_config, srt_run.grouped[i].node)

\* Without the multi-component paths the groups agree: for every import
\* whose path has one component or starts with a configured prefix.
GroupsAgreeOnSingleComponent ==
    SorterRan =>
        \A i \in DOMAIN srt_run.grouped :
            LET n == srt_run.grouped[i].node
            IN  (~Contains(get_module_name(n), ".") \/ srt_config.stdlib_prefixes # {})
                => srt_run.grouped[i].group = PriorityGroup(srt_config, n)

\* The sorter returned the sorted imports of the module.
SorterReturned == srt_pc # "idle" /\ srt_run.result = "list"

GroupsOf(items) == [i \in DOMAIN items |-> items[i].group]

\* The distinct elements of a sequence, in the order each is first seen.
RECURSIVE FirstSeen(_, _)
FirstSeen(seq, seen) ==
    IF seq = <<>> THEN seen
    ELSE FirstSeen(Tail(seq),
             IF InSeq(Head(seq), seen) THEN seen ELSE Append(seen, Head(seq)))

\* A sequence with every run of equal neighbours reduced to one element.
RECURSIVE Runs(_)
Runs(seq) ==
    IF Len(seq) < 2 THEN seq
    ELSE IF seq[1] = seq[2] THEN Runs(Tail(seq))
    ELSE <<seq[1]>> \o Runs(Tail(seq))

\* The groups in the order the assembly rule gives: the configured order
\* restricted to the groups present, then the other groups present, as first
\* seen in the input.
ExpectedGroupOrder ==
    LET present == FirstSeen(GroupsOf(srt_run.grouped), <<>>)
    IN  SelectSeq(srt_config.group_order, LAMBDA g : InSeq(g, present))
        \o SelectSeq(present, LAMBDA g : ~InSeq(g, srt_config.group_order))

SortedIds == [i \in DOMAIN srt_run.sorted |-> srt_run.sorted[i].node.id]

ExampleSorted ==
    /\ SorterReturned
    /\ srt_config = ExampleSorter
    /\ srt_run.input = ExampleModule
    /\ SortedIds = <<"os", "requests", "myapp.core", ".utils">>

\* The items of one group, in the order they have in a sequence of items.
InGroup(items, group) == SelectSeq(items, LAMBDA item : item.group = group)

\* Items in key order, equal keys in the order they had in the input.
KeyOrdered(self, items, input) ==
    \A i, j \in DOMAIN items :
        i < j =>
            LET ki == KeyOf(self, items[i])
                kj == KeyOf(self, items[j])
            IN  /\ ki.t = kj.t
                /\ ~KeyLess(kj, ki)
                /\ ki = kj =>
                      \E a, b \in DOMAIN input :
                          a < b /\ input[a] = items[i] /\ input[b] = items[j]

\* C19: within each group the sort completes, whatever the group holds
\* (single-component and multi-component paths together included), and
\* leaves the imports in key order: the path, lower-cased under
\* case-insensitive sorting, (first component, path) for a multi-component
\* path under sort-by-package-first; equal keys keep their input order.
C19_SortCompletesInKeyOrder ==
    SorterRan =>
        /\ ~srt_run.raised
        /\ \A g \in {"stdlib", "third_party", "first_party", "local"} :
               KeyOrdered(srt_config, InGroup(srt_run.sorted, g),
                          InGroup(srt_run.grouped, g))

\* When the sort completes, each group is in key order with ties kept.
SortedWhenCompleted ==
    SorterReturned =>
        \A g \in {"stdlib", "third_party", "first_party", "local"} :
            KeyOrdered(srt_config, InGroup(srt_run.sorted, g),
                       InGroup(srt_run.grouped, g))

\* The sort raises exactly when a group holds a str key and a tuple key.
RaisesOnMixedKeys ==
    SorterRan =>
        (srt_run.raised <=>
            \E i, j \in DOMAIN srt_run.grouped :
                /\ srt_run.grouped[i].group = srt_run.grouped[j].group
                /\ KeyOf(srt_config, srt_run.grouped[i]).t
                      # KeyOf(srt_config, srt_run.grouped[j]).t)

ImportSection == ImportLines(srt_config, srt_run.sorted, NoneV)
OtherSection == OtherLines(srt_run.input)

\* C21: the lines of the non-import statements follow all import lines,
\* unchanged and in their original order, with exactly one blank separator
\* line between the two sections when both are non-empty and none otherwise.
C21_OneSeparatorBetweenSections ==
    SorterReturned =>
        srt_run.lines
            = ImportSection
              \o (IF ImportSection # <<>> /\ OtherSection # <<>>
                  THEN <<BlankLine>> ELSE <<>>)
              \o OtherSection

\* The separator is there when the first line of the other statements is not
\* blank, and the two sections are always there, in order.
SeparatorBeforeNonBlankLine ==
    SorterReturned =>
        /\ \/ srt_run.lines = ImportSection \o OtherSection
           \/ srt_run.lines = ImportSection \o <<BlankLine>> \o OtherSection
        /\ (OtherSection # <<>> /\ OtherSection[1] # BlankLine)
              => srt_run.lines = ImportSection \o <<BlankLine>> \o OtherSection

(***************************************************************************)
(* Loading a manifest that is missing, unreadable or malformed             *)
(***************************************************************************)

\* The manifest load_from_pyproject(path) opens, if any.
Resolved(path) == IF path = NoneV THEN WalkUp ELSE path

Missing(path)    == ~Manifests[Resolved(path)].exists
Unreadable(path) == Manifests[Resolved(path)].exists /\ ~Manifests[Resolved(path)].readable
Unparsable(path) == Manifests[Resolved(path)].exists /\ ~Manifests[Resolved(path)].parses
Misshapen(path)  == Manifests[Resolved(path)].exists /\ ~Manifests[Resolved(path)].shape_ok

\* The first load_from_pyproject call of the manager has ended.
LoadEnded == cm_pc \in {"loaded", "load_raised"}

\* C22: load(path) does not raise and leaves the plugin configuration as it
\* was whenever the manifest is missing, unreadable or malformed: a file that
\* does not parse, or a parsed file whose tool / black / plugins entries are
\* not tables.
C22_LoadFaultIsNoOp ==
    (/\ LoadEnded
     /\ \/ Missing(cm_loaded) \/ Unreadable(cm_loaded)
        \/ Unparsable(cm_loaded) \/ Misshapen(cm_loaded))
    => (cm_pc = "loaded" /\ plugins_config = PluginsConfig)

\* For a manifest that is missing, cannot be read or does not parse, the call
\* returns and the configuration is as before; for any manifest, a call that
\* raises leaves the configuration as before.
LoadFaultBeforeExtraction ==
    /\ (/\ LoadEnded
        /\ Missing(cm_loaded) \/ Unreadable(cm_loaded) \/ Unparsable(cm_loaded))
       => (cm_pc = "loaded" /\ plugins_config = PluginsConfig)
    /\ cm_pc = "load_raised" => plugins_config = PluginsConfig

(***************************************************************************)
(* AbstractPlugin.configure                                                *)
(***************************************************************************)

\* The options configure_plugins hands to the plugin indexed under a name.
OptionsFor(name) == ConfigFor(plugins_config, name).options

\* The attributes an instance of the class has when __init__ returns.
InitAttrs(inst) == ClassDefs[inst.cls].attrs

\* C23: configure(options) changes only attributes the instance already has:
\* a key of options naming an existing attribute sets it to the given value,
\* a key naming no attribute is ignored and creates no attribute.
C23_ConfigureSetsKnownAttributesOnly ==
    \A i \in DOMAIN enabled_plugins :
        LET inst    == enabled_plugins[i].value
            options == OptionsFor(enabled_plugins[i].name)
        IN  /\ DOMAIN inst.attrs = DOMAIN InitAttrs(inst)
            /\ \A k \in DOMAIN inst.attrs :
                  inst.attrs[k] = IF k \in DOMAIN options THEN options[k]
                                  ELSE InitAttrs(inst)[k]

\* An enabled plugin that was configured with one option naming an attribute
\* it has, which took the value given, and one naming no attribute.
C23_Witness ==
    \E i \in DOMAIN enabled_plugins :
        LET inst    == enabled_plugins[i].value
            options == OptionsFor(enabled_plugins[i].name)
        IN  /\ \E k \in DOMAIN options : k \notin DOMAIN InitAttrs(inst)
            /\ \E k \in DOMAIN options :
                  /\ k \in DOMAIN InitAttrs(inst)
                  /\ options[k] # InitAttrs(inst)[k]
                  /\ inst.attrs[k] = options[k]

(***************************************************************************)
(* Coercion of CLI option values                                           *)
(***************************************************************************)

AllDecimal(s) == \A i \in 1..Len(s) : s[i] \in AsciiDigits

\* The value the rules give, first match first: the literal true / false is
\* a boolean; digits only, an integer; digits with at most one point, a float;
\* anything else (another casing of true / false, a sign, a lone ".", the
\* empty string) the string itself.
RuleValue(value) ==
    IF value = Word_true THEN BoolVal(TRUE)
    ELSE IF value = Word_false THEN BoolVal(FALSE)
    ELSE IF value # <<>> /\ AllDecimal(value) THEN IntOf(value)
    ELSE IF /\ Count(value, ".") = 1
            /\ RemoveFirst(value, ".") # <<>>
            /\ AllDecimal(RemoveFirst(value, "."))
         THEN FloatOf(value)
    ELSE StrVal(value)

\* C24: an option value is coerced by the first matching rule (true / false,
\* digits, digits with at most one point, else unchanged string, which
\* covers TRUE / False in other casings, signed numbers, "." and ""), and
\* the coercion never raises.
C24_CoercionByFirstRule ==
    cv_pc # "idle" => (cv_pc = "stored" /\ cv_stored = RuleValue(cv_value))

\* The rules hold for every value that is not true / false in another
\* casing and holds no digit other than a decimal digit.
CoercionOfPlainValues ==
    (/\ cv_pc # "idle"
     /\ Lower(cv_value) \notin {Word_true, Word_false} \ {cv_value}
     /\ \A i \in 1..Len(cv_value) : cv_value[i] \notin OtherDigits)
    => (cv_pc = "stored" /\ cv_stored = RuleValue(cv_value))

(***************************************************************************)
(* Parent cycles                                                           *)
(***************************************************************************)

\* C25: get_effective_configuration returns a result exactly when the chain
\* of resolvable parent names from the profile is acyclic; on a cycle (a
\* profile that is its own parent included) the recursion reaches no base
\* case and no settings map is returned.
C25_ReturnsIffAcyclic ==
    prof_last.op = "get_effective_configuration"
    => (~prof_last.raised <=> AcyclicChain(profiles, prof_last.name))

\* The effective configuration of a profile was asked for whose parent is
\* another profile and whose chain runs into a cycle: the call did not return.
C25_Witness ==
    /\ prof_last.op = "get_effective_configuration"
    /\ prof_last.raised
    /\ ~AcyclicChain(profiles, prof_last.name)
    /\ profiles[prof_last.name].parent # prof_last.name

(***************************************************************************)
(* Discovery: units of one file name in several paths                      *)
(***************************************************************************)

\* The units that were executed: those sys.modules holds.
LoadedUnits == {sys_modules[m] : m \in DOMAIN sys_modules}

\* C26: discovery loads every candidate unit of every existing discovery
\* path from that path; when two paths hold a unit of the same file name,
\* both units are loaded.
C26_EveryUnitLoadedFromItsPath ==
    (reg_last.op = "discover" /\ ~reg_last.raised)
    => LoadableUnits(SearchedPaths) \subseteq LoadedUnits

\* For every candidate unit that loads, a unit of its module name is loaded
\* (from some directory).
SomeUnitOfEachNameLoaded ==
    (reg_last.op = "discover" /\ ~reg_last.raised)
    => \A u \in LoadableUnits(SearchedPaths) :
          \E v \in LoadedUnits : v[2] = u[2]

(***************************************************************************)
(* Discovery: two definitions of one declared name                         *)
(***************************************************************************)

\* The classes the candidate units define, in the order discovery visits the
\* units (path by path, unit by unit) and the classes of a unit.
RECURSIVE DefinitionsIn(_)
DefinitionsIn(todo) ==
    IF todo = <<>> THEN <<>>
    ELSE (IF Units[Head(todo)].outcome = "ok" THEN Units[Head(todo)].classes ELSE <<>>)
         \o DefinitionsIn(Tail(todo))

\* The last of them that declares the name.
LastDeclaring(name) ==
    LET defs == DefinitionsIn(Candidates(SearchedPaths))
        at   == {i \in 1..Len(defs) : ClassDefs[defs[i]].PLUGIN_NAME = name}
    IN  defs[CHOOSE i \in at : \A j \in at : j <= i]

\* The class indexed under a name.
IndexedClass(name) == plugin_classes[IndexedAt(name)].value

LaterDefinitionIndexed ==
    \A n \in NamesIn(LoadableUnits(SearchedPaths)) : IndexedClass(n) = LastDeclaring(n)

IndexedClassInstantiated ==
    \A i \in 1..Len(enabled_plugins) :
        enabled_plugins[i].value.cls = IndexedClass(enabled_plugins[i].name)

FreshInstance(name) ==
    [cls |-> IndexedClass(name),
     attrs |-> configure(ClassDefs[IndexedClass(name)].attrs, OptionsFor(name))]

AllFresh ==
    \A i \in 1..Len(enabled_plugins) :
        enabled_plugins[i].value = FreshInstance(enabled_plugins[i].name)

\* The names the last configuration resolves as enabled.
ResolvedNames ==
    IF plugins_config.disable_all THEN {}
    ELSE {plugin_classes[i].name : i \in {j \in 1..Len(plugin_classes) : EnabledByConfig(j)}}

\* Those of them whose class can be instantiated and configured.
InitializedNames ==
    IF plugins_config.disable_all THEN {}
    ELSE {plugin_classes[i].name :
             i \in {j \in 1..Len(plugin_classes) : EnabledByConfig(j) /\ ~Fails(j)}}

EnabledSet == {enabled_plugins[i].name : i \in 1..Len(enabled_plugins)}

\* C28 as stated: after a configure call the enabled set holds exactly the
\* plugins the call resolved as enabled, each as an instance made and
\* configured in that call.
C28_ExactlyTheResolvedPlugins ==
    reg_last.op = "configure" => (EnabledSet = ResolvedNames /\ AllFresh)

\* C28 for the plugins that can be made: after a configure call that
\* returned, the enabled set holds exactly the plugins the call resolved as
\* enabled and could construct and configure, each as an instance made and
\* configured in that call; after one that raised, it is empty.
C28_ExactlyTheInitializedPlugins ==
    reg_last.op = "configure" =>
        /\ AllFresh
        /\ ~reg_last.raised => EnabledSet = InitializedNames
        /\ reg_last.raised => enabled_plugins = <<>>

\* A configure call that found plugins enabled by an earlier call: one of
\* them is no longer enabled, another is enabled again with another value of
\* an option.
C28_Witness ==
    /\ reg_last.op = "configure"
    /\ \E i \in 1..Len(reg_last.prev_enabled) :
          reg_last.prev_enabled[i].name \notin EnabledSet
    /\ \E i \in 1..Len(reg_last.prev_enabled), j \in 1..Len(enabled_plugins) :
          /\ reg_last.prev_enabled[i].name = enabled_plugins[j].name
          /\ reg_last.prev_enabled[i].value.cls = enabled_plugins[j].value.cls
          /\ reg_last.prev_enabled[i].value.attrs # enabled_plugins[j].value.attrs

(***************************************************************************)
(* C29: one registry per process                                           *)
(***************************************************************************)

\* A PluginLineGenerator was constructed, so PluginRegistry() was called
\* again after initialize_plugins returned.
GeneratorCreated == reg_last.op = "new"

\* A visit of the generator got as far as reading the enabled plugins.
Dispatched == GeneratorCreated /\ pl_pc # "idle"

\* C29: the PluginRegistry() call of a PluginLineGenerator constructed after
\* initialize_plugins leaves the indexed definitions and the enabled set as
\* they were before the call, and every visit of that generator dispatches
\* to the enabled instances, in their order: those initialize_plugins
\* enabled.
C29_OneRegistryPerProcess ==
    /\ GeneratorCreated =>
          /\ has_instance
          /\ plugin_classes = reg_last.prev_classes
          /\ enabled_plugins = reg_last.prev_enabled
    /\ Dispatched =>
          /\ pl_plugins = Dispatchers(get_all_enabled_plugins(reg_last.prev_enabled))
          /\ pl_calls = SubSeq(pl_plugins, 1, Len(pl_calls))

\* A generator created after an initialization that enabled two plugins,
\* and a visit of it that called both.
C29_Witness ==
    /\ Dispatched
    /\ Len(reg_last.prev_enabled) >= 2
    /\ reg_last.prev_classes # <<>>
    /\ Len(pl_calls) >= 2

(***************************************************************************)
(* C30: the import_sorting_in_progress marker                              *)
(***************************************************************************)

\* The last visit was of a module node.
ModuleVisited == visit_last.type = "file_input"

\* The sorter's apply returned: a list, or None for a module without
\* imports.
ApplyReturned == ModuleVisited /\ ~visit_last.plugin_raised

\* The sorter's apply ended with a fault line_gen raised for a child, after
\* the imports were sorted.
RendererFault ==
    /\ ModuleVisited
    /\ visit_last.plugin_raised
    /\ visit_last.fault = "line_gen"
    /\ visit_last.unrenderable # {}

\* C30: when the sorter's apply on a module node has ended, by returning or
\* by a fault raised by line_gen for a child, the context holds no
\* import_sorting_in_progress marker.
C30_MarkerClearedWhenApplyEnds ==
    (ApplyReturned \/ RendererFault) => ~context_marker

\* When apply returns for a module visited with a context that had no
\* marker, the context has none afterwards.
MarkerClearedOnReturn ==
    (ApplyReturned /\ ~visit_last.marker_before) => ~context_marker

\* A visit of an import statement after the marker was left behind: the
\* sorter returned None for it because of the marker.
MarkerSeenByLaterVisit ==
    /\ visit_last.type \in {"import_stmt", "import_from_stmt"}
    /\ visit_last.marker_before
    /\ ~visit_last.plugin_raised
    /\ visit_last.result = "None"

(***************************************************************************)
(* C31: a reference plugin and the plugins after it                        *)
(***************************************************************************)

\* The visit of a node has ended, a reference plugin was first in registry
\* order with another plugin after it, and the node is of a type the
\* reference plugin does not handle.
UnhandledByFirst ==
    /\ pl_pc \in {"returned", "raised"}
    /\ Len(pl_plugins) >= 2
    /\ pl_plugins[1] \in ReferencePlugins
    /\ NodeType(pl_node) \notin HandledTypes(pl_plugins[1])

\* C31: a node of a type the reference plugin first in registry order does
\* not handle is offered to the plugin after it: apply_plugin of that plugin
\* was called before the visit ended.
C31_UnhandledNodeOfferedToLaterPlugin ==
    UnhandledByFirst => \E i \in DOMAIN pl_calls : pl_calls[i] = pl_plugins[2]

\* For such a node the visit ends with the lines the reference plugin
\* returned, line_gen(node), after a single call.
UnhandledNodeClaimedByFirst ==
    UnhandledByFirst =>
        /\ pl_calls = <<pl_plugins[1]>>
        /\ pl_from = "plugin"
        /\ pl_out = line_gen(pl_node)

(***************************************************************************)
(* C32: configure(get_default_options())                                   *)
(***************************************************************************)

\* The sorter was configured with the map get_default_options() returns.
DefaultsConfigured == srt_pc \in {"defaults", "processed_defaults"}

\* The import statements of the catalogue.
ImportNodes == {n \in StmtNodes : IsImport(n)}

\* C32: a sorter configured with exactly the map get_default_options()
\* returns has the group order of a freshly constructed sorter and puts
\* every import in the group a freshly constructed sorter puts it in.
C32_DefaultOptionsChangeNothing ==
    DefaultsConfigured =>
        /\ srt_config.group_order = DefaultSorter.group_order
        /\ \A n \in ImportNodes :
              determine_import_group(srt_config, n)
                  = determine_import_group(DefaultSorter, n)

\* The group order is that of a freshly constructed sorter.
DefaultGroupOrderKept ==
    DefaultsConfigured => srt_config.group_order = DefaultSorter.group_order

\* After configure(get_default_options()) every import that is not local
\* is first-party: each empty str became the set holding the empty prefix.
DefaultsMakeEverythingFirstParty ==
    DefaultsConfigured =>
        /\ srt_config.first_party_prefixes = {<<>>}
        /\ \A n \in ImportNodes :
              determine_import_group(srt_config, n) \in {"local", "first_party"}

\* A module whose imports the configured sorter grouped otherwise than a
\* freshly constructed one.
DefaultsRegroupModule ==
    /\ srt_pc = "processed_defaults"
    /\ ~srt_run.raised /\ ~srt_first.raised
    /\ srt_run.grouped # srt_first.grouped

(***************************************************************************)
(* C33: get_effective_configuration is read-only                           *)
(***************************************************************************)

\* The effective configuration of the same profile was asked for before.
AskedAgain ==
    /\ prof_prev.op = "get_effective_configuration"
    /\ prof_last.op = "get_effective_configuration"
    /\ prof_prev.name = prof_last.name

\* C33: a get_effective_configuration call leaves the registry's profiles as
\* they were, the settings of the profile and of every ancestor included,
\* and a second call on the unchanged registry ends as the first did, with
\* an equal result.
C33_EffectiveIsReadOnly ==
    [][ /\ profiles' = profiles
        /\ AskedAgain' => /\ prof_last'.raised = prof_prev'.raised
                          /\ prof_last'.config = prof_prev'.config ]_vars

\* The effective configuration of a profile was asked for twice and
\* returned; the profile has a parent in the registry whose effective
\* configuration its own settings change.
C33_Witness ==
    /\ AskedAgain
    /\ ~prof_last.raised
    /\ Truthy(profiles[prof_last.name].parent)
    /\ profiles[prof_last.name].parent \in DOMAIN profiles
    /\ prof_last.config # profiles[profiles[prof_last.name].parent].settings
    /\ prof_last.config # profiles[prof_last.name].settings

\* The call ends as the value-level get_effective_configuration says.
EffectiveAgreesWithValue ==
    prof_last.op = "get_effective_configuration" =>
        LET e == get_effective_configuration(profiles, profiles[prof_last.name], 0)
        IN  prof_last.raised = e.raised /\ (~e.raised => prof_last.config = e.config)
====
